---- MODULE Spec2Model ----
(***************************************************************************)
(* A model of the utility library snowdash.                                *)
(*                                                                         *)
(* Part 1: Objects.clone (src/ts/Objects.ts), the deep-clone engine.  The   *)
(* recursion of the inner function main() is modelled with an explicit     *)
(* stack of frames; every JavaScript value is a pair <<tag, index>>.       *)
(***************************************************************************)
EXTENDS Integers, Sequences, FiniteSets, TLC

(***************************************************************************)
(* Bounds of the model.                                                    *)
(***************************************************************************)
\* Number of objects of the source heap.
NumNodes == 2
\* Largest number of entries of a source Map or Set.
MaxEntries == 2
\* Largest argument nTimes of withLimit and after.
MaxTimes == 2
\* Largest number of calls of one wrapper.
MaxCalls == 4
\* Largest number of wrappers made by memoize.
MaxWrappers == 2
\* Largest number of calls of the wrappers made by memoize.
MaxMemoCalls == 2
\* Number of values that the elements of a Set are drawn from.
NumElements == 3
\* Largest length of the list given to generatePermutations.
MaxListLength == 3

Nodes == 1..NumNodes

(***************************************************************************)
(* JavaScript values.                                                      *)
(***************************************************************************)
\* The n-th object of the source heap.
Obj(n) == <<"object", n>>
\* The i-th object constructed by the running clone() call.
Clone(i) == <<"clone", i>>
\* A function object.
Fn == <<"function", 1>>
\* Further function objects, used as getter and setter of accessors.
Getter == <<"function", 2>>
Setter == <<"function", 3>>
Null == <<"null", 0>>
Undefined == <<"undefined", 0>>
Num1 == <<"number", 1>>
Str == <<"string", 0>>
True == <<"boolean", 1>>
False == <<"boolean", 0>>
Num(n) == <<"number", n>>
Sym == <<"symbol", 9>>
Big == <<"bigint", 1>>
\* Built-in prototype objects.
ObjectPrototype == <<"builtin", 1>>
MapPrototype == <<"builtin", 2>>
SetPrototype == <<"builtin", 3>>
DatePrototype == <<"builtin", 4>>
RegExpPrototype == <<"builtin", 5>>
BooleanPrototype == <<"builtin", 6>>
NumberPrototype == <<"builtin", 7>>
\* An object that is no member of the source graph and has the property
\* Symbol.toStringTag with the value "Function".
TaggedPrototype == <<"builtin", 8>>
\* No value at all (an empty slot of the model, not a JavaScript value).
NoVal == <<"none", 0>>

\* Property keys: two string keys and one symbol key; "lastIndex".
X == <<"string", 1>>
Y == <<"string", 2>>
S == <<"symbol", 1>>
LastIndex == <<"string", 0>>

\* The typeof operator.
TypeOf(v) ==
    CASE v[1] \in {"object", "clone", "builtin", "null", "array"} -> "object"
      [] OTHER -> v[1]

\* tc.isPrimitive: everything but typeof "function" and "object"; so null,
\* whose typeof is "object", does not count as a primitive.
isPrimitive(v) == TypeOf(v) \notin {"function", "object"}

\* Type(v) is Object in the sense of ECMAScript: what Reflect.getPrototypeOf
\* accepts.
IsObject(v) == v[1] \in {"object", "clone", "builtin", "function"}

IsSymbolKey(k) == k[1] = "symbol"

(***************************************************************************)
(* Property descriptors and objects.                                       *)
(***************************************************************************)
DataDesc(k, v, w, e, c) ==
    [key |-> k, type |-> "data", value |-> v, get |-> Undefined,
     set |-> Undefined, writable |-> w, enumerable |-> e, configurable |-> c]

DataProp(k, v) == DataDesc(k, v, TRUE, TRUE, TRUE)

AccessorProp(k, g, s) ==
    [key |-> k, type |-> "accessor", value |-> Undefined, get |-> g,
     set |-> s, writable |-> FALSE, enumerable |-> TRUE, configurable |-> TRUE]

\* An object: its kind (the tag of Object.prototype.toString), prototype,
\* extensibility, own properties in the order of Reflect.ownKeys, the
\* entries of its [[MapData]] or [[SetData]], and the value of its internal
\* slot [[DateValue]], [[BooleanData]], [[NumberData]] or of the pair
\* [[OriginalSource]], [[OriginalFlags]].
NewObject(kind, proto) ==
    [kind |-> kind, proto |-> proto, ext |-> TRUE, props |-> << >>,
     entries |-> << >>, slot |-> NoVal]

EmptyObject == NewObject("Object", ObjectPrototype)

\* The pairs of source and flags of the regular expressions of the model.
Patterns ==
    <<[source |-> "ab+c", flags |-> "gi"], [source |-> "ab+c", flags |-> ""],
      [source |-> "a", flags |-> "gi"]>>

\* The getters 'source' and 'flags' of RegExp.prototype.
SourceOf(slot) == Patterns[slot[2]].source
FlagsOf(slot) == Patterns[slot[2]].flags

HasOwn(o, k) == \E i \in 1..Len(o.props) : o.props[i].key = k

OwnProp(o, k) ==
    o.props[CHOOSE i \in 1..Len(o.props) : o.props[i].key = k]

HasEntry(o, k) == \E i \in 1..Len(o.entries) : o.entries[i].key = k

EntryValue(o, k) ==
    o.entries[CHOOSE i \in 1..Len(o.entries) : o.entries[i].key = k].value

(***************************************************************************)
(* The inputs of clone(object, options).                                   *)
(***************************************************************************)
DefaultOptions ==
    [allowAccessors |-> FALSE, allowFunctions |-> FALSE,
     ignoreAttributes |-> FALSE, ignoreExtensibility |-> FALSE,
     ignoreSymbols |-> FALSE]

Input(h, r, o) == [heap |-> h, root |-> r, options |-> o]

\* A property that is not there (a slot of the enumeration below left empty).
Absent(k) == [DataProp(k, Undefined) EXCEPT !.type = "absent"]

PropsOf(slots) == SelectSeq(slots, LAMBDA d : d.type # "absent")

\* Replaces or adds an own property, keeping X before Y.
Put(props, p) ==
    IF \E i \in 1..Len(props) : props[i].key = p.key
    THEN [i \in 1..Len(props) |->
             IF props[i].key = p.key THEN p ELSE props[i]]
    ELSE IF p.key = X THEN <<p>> \o props ELSE props \o <<p>>

\* Family 1: graphs of plain objects whose properties x and y refer to
\* objects of the graph (cycles and sharing included).
ObjectSlot(k) == {Absent(k)} \cup {DataProp(k, Obj(m)) : m \in Nodes}

ObjectGraphs ==
    { [n \in Nodes |-> [EmptyObject EXCEPT !.props = PropsOf(e[n])]] :
        e \in [Nodes -> {<<dx, dy>> : dx \in ObjectSlot(X), dy \in ObjectSlot(Y)}] }

GraphInputs == { Input(h, Obj(1), DefaultOptions) : h \in ObjectGraphs }

\* Family 1p: such graphs in which one object has another object of the
\* graph, or null, as its prototype (only the root has a property y).
ProtoGraphs == { h \in ObjectGraphs : \A n \in Nodes \ {1} : ~HasOwn(h[n], Y) }

ProtoChoices ==
    UNION { {<<n, p>> : p \in {Null} \cup {Obj(m) : m \in Nodes \ {n}}} :
              n \in Nodes }

WithProto(h, pc) == [h EXCEPT ![pc[1]].proto = pc[2]]

ProtoInputs ==
    { Input(WithProto(h, pc), Obj(1), DefaultOptions) :
        h \in ProtoGraphs, pc \in ProtoChoices }

\* Family 2: acyclic graphs of plain objects in which one property is a
\* function, a primitive value, null or an accessor; allowFunctions and
\* allowAccessors vary.
DagSlot(k, n) == {Absent(k)} \cup {DataProp(k, Obj(m)) : m \in {j \in Nodes : j > n}}

DagGraphs ==
    { [n \in Nodes |-> [EmptyObject EXCEPT !.props = PropsOf(e[n])]] :
        e \in { f \in [Nodes -> {<<dx, dy>> : dx \in ObjectSlot(X), dy \in ObjectSlot(Y)}] :
                  \A n \in Nodes : f[n][1] \in DagSlot(X, n) /\ f[n][2] \in DagSlot(Y, n) } }

SpecialProps(k) ==
    {DataProp(k, Fn), DataProp(k, Num1), DataProp(k, Null),
     AccessorProp(k, Getter, Setter), AccessorProp(k, Getter, Undefined)}

SpecialInputs ==
    { Input([h EXCEPT ![n].props = Put(h[n].props, p)], Obj(1),
            [DefaultOptions EXCEPT !.allowFunctions = af, !.allowAccessors = aa]) :
        h \in DagGraphs, n \in Nodes, p \in SpecialProps(X) \cup SpecialProps(Y),
        af \in BOOLEAN, aa \in BOOLEAN }

\* Family 3: object 1 is a Map or a Set with up to MaxEntries entries and up
\* to two own properties; object 2 is a plain object that may refer to it.
EntryKey(i) == <<"string", 2 + i>>

EntryVals == {Obj(1), Obj(2), Fn, Num1}

ValueSeqs == UNION { [1..n -> EntryVals] : n \in 0..MaxEntries }

MapEntries(vs) == [i \in 1..Len(vs) |-> [key |-> EntryKey(i), value |-> vs[i]]]

\* The entries() of a Set yield each element as key and as value.
SetEntries(vs) == [i \in 1..Len(vs) |-> [key |-> vs[i], value |-> vs[i]]]

Distinct(vs) == \A i, j \in 1..Len(vs) : vs[i] = vs[j] => i = j

Collections ==
    { [NewObject("Map", MapPrototype) EXCEPT !.entries = MapEntries(vs)] :
        vs \in ValueSeqs }
    \cup
    { [NewObject("Set", SetPrototype) EXCEPT !.entries = SetEntries(vs)] :
        vs \in {ws \in ValueSeqs : Distinct(ws)} }

CollectionInputs ==
    { Input([n \in Nodes |->
                 IF n = 1 THEN [c EXCEPT !.props = PropsOf(<<dx, dy>>)]
                 ELSE IF n = 2 THEN [EmptyObject EXCEPT !.props = PropsOf(<<bx>>)]
                 ELSE EmptyObject],
            r, [DefaultOptions EXCEPT !.allowFunctions = af]) :
        c \in Collections,
        dx \in {Absent(X), DataProp(X, Obj(2))},
        dy \in {Absent(Y), DataProp(Y, Obj(2))},
        bx \in {Absent(X), DataProp(X, Obj(1))},
        r \in {Obj(1), Obj(2)}, af \in BOOLEAN }

\* Family 4: the root is no object: a primitive value, null or a function.
RootValues == {Num1, Str, True, Undefined, Sym, Big, Null, Fn}

RootInputs ==
    { Input([n \in Nodes |-> EmptyObject], r,
            [DefaultOptions EXCEPT !.allowFunctions = af]) :
        r \in RootValues, af \in BOOLEAN }

\* Family 5: the root has a property under a symbol key; ignoreSymbols,
\* allowFunctions and allowAccessors vary.
SymbolInputs ==
    { Input([n \in Nodes |->
                 IF n = 1 THEN [EmptyObject EXCEPT !.props = PropsOf(<<dx, ds>>)]
                 ELSE EmptyObject],
            Obj(1),
            [DefaultOptions EXCEPT !.ignoreSymbols = is, !.allowFunctions = af,
                                   !.allowAccessors = aa]) :
        dx \in {Absent(X), DataProp(X, Obj(2))},
        ds \in {DataProp(S, Obj(2)), DataProp(S, Fn), AccessorProp(S, Getter, Setter)},
        is \in BOOLEAN, af \in BOOLEAN, aa \in BOOLEAN }

\* Family 6: the property x of the root has any attributes; the objects are
\* extensible or not; object 2 may be the prototype of the root and have a
\* property x of its own; ignoreAttributes and ignoreExtensibility vary.
InheritedSlot ==
    {Absent(X), DataProp(X, Obj(2)), DataDesc(X, Obj(2), FALSE, TRUE, TRUE),
     AccessorProp(X, Getter, Setter), AccessorProp(X, Getter, Undefined)}

AttributeInputs ==
    { Input([n \in Nodes |->
                 IF n = 1
                 THEN [EmptyObject EXCEPT !.props = <<DataDesc(X, v, w, e, c)>>,
                                          !.proto = pr, !.ext = x1]
                 ELSE IF n = 2
                 THEN [EmptyObject EXCEPT !.props = PropsOf(<<bx>>), !.ext = x2]
                 ELSE EmptyObject],
            Obj(1),
            [DefaultOptions EXCEPT !.ignoreAttributes = ia,
                                   !.ignoreExtensibility = ie]) :
        v \in {Obj(1), Obj(2)}, w \in BOOLEAN, e \in BOOLEAN, c \in BOOLEAN,
        pr \in {ObjectPrototype, Obj(2)}, x1 \in BOOLEAN, x2 \in BOOLEAN,
        bx \in InheritedSlot, ia \in BOOLEAN, ie \in BOOLEAN }

\* Family 7: object 1 is a Date, a RegExp, a Boolean or a Number object with
\* or without an own property x; object 2 is a plain object that refers to it.
Times == {0, 1000}
Numbers == {0, 1}

Boxed ==
    { [NewObject("Date", DatePrototype) EXCEPT !.slot = Num(t)] : t \in Times }
    \cup
    { [NewObject("RegExp", RegExpPrototype) EXCEPT
          !.slot = <<"regexp", i>>,
          !.props = <<DataDesc(LastIndex, Num(li), TRUE, FALSE, FALSE)>>] :
        i \in 1..Len(Patterns), li \in Numbers }
    \cup
    { [NewObject("Boolean", BooleanPrototype) EXCEPT !.slot = b] :
        b \in {True, False} }
    \cup
    { [NewObject("Number", NumberPrototype) EXCEPT !.slot = Num(n)] :
        n \in Numbers }

BoxedInputs ==
    { Input([n \in Nodes |->
                 IF n = 1 THEN [b EXCEPT !.props = @ \o PropsOf(<<dx>>)]
                 ELSE IF n = 2 THEN [EmptyObject EXCEPT !.props = <<DataProp(X, Obj(1))>>]
                 ELSE EmptyObject],
            r, DefaultOptions) :
        b \in Boxed, dx \in {Absent(X), DataProp(X, Obj(2))}, r \in {Obj(1), Obj(2)} }

\* Family 8: object 1 is an object whose tag is "Function" (it inherits the
\* property Symbol.toStringTag); its property x refers to the plain object 2.
TaggedInputs ==
    { Input([n \in Nodes |->
                 IF n = 1
                 THEN [NewObject("Function", TaggedPrototype) EXCEPT
                          !.props = <<DataDesc(X, Obj(2), w, TRUE, c)>>,
                          !.ext = x1]
                 ELSE IF n = 2
                 THEN [EmptyObject EXCEPT !.props = PropsOf(<<bx>>), !.ext = x2]
                 ELSE EmptyObject],
            r,
            [DefaultOptions EXCEPT !.ignoreAttributes = ia,
                                   !.ignoreExtensibility = ie]) :
        w \in BOOLEAN, c \in BOOLEAN, x1 \in BOOLEAN, x2 \in BOOLEAN,
        bx \in {Absent(X), DataProp(X, Obj(1))}, r \in {Obj(1), Obj(2)},
        ia \in BOOLEAN, ie \in BOOLEAN }

\* Family 9: the root is a plain object whose properties hold primitive
\* values and null.
Primitives == {Num1, Str, True, Null, Undefined}

PrimitiveSlot(k) == {Absent(k)} \cup {DataProp(k, v) : v \in Primitives}

PrimitiveInputs ==
    { Input([n \in Nodes |->
                 IF n = 1 THEN [EmptyObject EXCEPT !.props = PropsOf(<<dx, dy>>)]
                 ELSE EmptyObject],
            Obj(1), DefaultOptions) :
        dx \in PrimitiveSlot(X), dy \in PrimitiveSlot(Y) }

Inputs ==
    GraphInputs \cup ProtoInputs \cup SpecialInputs \cup CollectionInputs
        \cup RootInputs \cup SymbolInputs \cup AttributeInputs
        \cup BoxedInputs \cup TaggedInputs \cup PrimitiveInputs

(***************************************************************************)
(* The state of one call clone(root, options).                             *)
(***************************************************************************)
VARIABLES
    heap,                     \* the source objects
    root,                     \* the argument 'object'
    options,                  \* the argument 'options'
    status,                   \* "ready", "running", "returned" or "thrown"
    result,                   \* the value clone() returned
    error,                    \* the error clone() threw
    clones,                   \* the objects constructed by the call
    built,                    \* built[i]: the source object Clone(i) was made for
    clonesByVisitedObject,    \* the WeakMap: source object -> its clone, NoVal: none
    setOfVisitedPrototypes,   \* the WeakSet
    path,                     \* the array 'path'
    stack,                    \* the activations of main() that are in their key loop
    arg,                      \* the argument of the activation of main() being entered
    ret                       \* the value the last activation of main() returned

\* The state of one call JsonObjects.equals(object, otherObject, options).
VARIABLES
    object,                   \* the argument 'object'
    otherObject,              \* the argument 'otherObject'
    allowUndefined,           \* the option 'allowUndefined'
    equalsResult              \* "ready", "true", "false" or "throw"; "idle": no call

\* The state of one wrapper made by Functions.withLimit, once or after.
VARIABLES
    wrapper,                  \* "withLimit", "once" or "after"; "idle": none
    nTimes,                   \* the argument 'nTimes'
    wrapper_n,                \* the variable 'n' of the closure
    wrapper_cache,            \* the variable 'cache' of the closure of withLimit
    calls,                    \* the calls of the wrapper, in the order they began
    pending                   \* the calls whose wrapped function is running

\* The state of the memoization utilities of Functions.
VARIABLES
    cachesByFunction,         \* the WeakMap: function -> cache, 0: none
    wrappedFunctionsByCache,  \* the WeakMap: cache -> function, NoVal: none
    wrapperFunctionsByCache,  \* the WeakMap: cache -> wrapper, NoVal: none
    wrappers,                 \* the wrappers made: 'fn' and the property 'closed'
    caches,                   \* the Maps made: caches[c][k], NoVal: no entry
    method,                   \* the value of object[key]
    lastCall,                 \* the last call of memoize, unmemoize, ...
    memoCalls,                \* how many calls of the wrappers have begun
    memoCall,                 \* the call of a wrapper that began or ended last
    invocations,              \* invocations[c][k]: see Invoked
    frames                    \* the calls that wait for the wrapped function

\* The state of one call Sets.equals(set, otherSet).
VARIABLES
    set,                      \* the argument 'set': its elements in insertion order
    otherSet,                 \* the argument 'otherSet'
    setsResult                \* "ready", or the boolean returned; "idle": no call

\* The state of one generator made by Arrays.generatePermutations(list).
VARIABLES
    arrays,                   \* the arrays: arrays[a] is the elements of the array a
    perm,                     \* the array 'perm', 0 before the body has begun
    yielded,                  \* the array yielded last, 0: none yet
    permutations,             \* what each yielded array held when it was yielded
    generate,                 \* the activations of generate()
    permStatus                \* "ready", "running" or "done"; "idle": no generator

cloneVars ==
    <<heap, root, options, status, result, error, clones, built,
      clonesByVisitedObject, setOfVisitedPrototypes, path, stack, arg, ret>>

equalsVars == <<object, otherObject, allowUndefined, equalsResult>>

wrapperVars == <<wrapper, nTimes, wrapper_n, wrapper_cache, calls, pending>>

memoVars ==
    <<cachesByFunction, wrappedFunctionsByCache, wrapperFunctionsByCache,
      wrappers, caches, method, lastCall, memoCalls, memoCall, invocations,
      frames>>

\* The state of the parts of the library other than clone.
setsVars == <<set, otherSet, setsResult>>

permVars == <<arrays, perm, yielded, permutations, generate, permStatus>>

otherVars == <<equalsVars, wrapperVars, memoVars, setsVars, permVars>>

\* The state of the parts of the library other than equals.
equalsOthers == <<cloneVars, wrapperVars, memoVars, setsVars, permVars>>

\* The state of the parts of the library other than the wrappers.
wrapperOthers == <<cloneVars, equalsVars, memoVars, setsVars, permVars>>

\* The state of the parts of the library other than memoization.
memoOthers == <<cloneVars, equalsVars, wrapperVars, setsVars, permVars>>

\* The state of the parts of the library other than Sets.
setsOthers == <<cloneVars, equalsVars, wrapperVars, memoVars, permVars>>

\* The state of the parts of the library other than generatePermutations.
permOthers == <<cloneVars, equalsVars, wrapperVars, memoVars, setsVars>>

vars == <<cloneVars, otherVars>>

\* No call of equals is made.
EqualsIdle ==
    /\ object = NoVal
    /\ otherObject = NoVal
    /\ allowUndefined = FALSE
    /\ equalsResult = "idle"

\* No wrapper is made.
WrapperIdle ==
    /\ wrapper = "idle"
    /\ nTimes = 0
    /\ wrapper_n = 0
    /\ wrapper_cache = NoVal
    /\ calls = << >>
    /\ pending = << >>

\* No function is memoized.
MemoIdle ==
    /\ cachesByFunction = << >>
    /\ wrappedFunctionsByCache = << >>
    /\ wrapperFunctionsByCache = << >>
    /\ wrappers = << >>
    /\ caches = << >>
    /\ method = NoVal
    /\ lastCall = NoVal
    /\ memoCalls = 0
    /\ memoCall = NoVal
    /\ invocations = << >>
    /\ frames = << >>

\* Nothing but clone is in use.
\* No call of Sets.equals is made.
SetsIdle ==
    /\ set = << >>
    /\ otherSet = << >>
    /\ setsResult = "idle"

\* No generator is made.
PermIdle ==
    /\ arrays = << >>
    /\ perm = 0
    /\ yielded = 0
    /\ permutations = << >>
    /\ generate = << >>
    /\ permStatus = "idle"

OthersIdle == EqualsIdle /\ WrapperIdle /\ MemoIdle /\ SetsIdle /\ PermIdle

NoError == [name |-> "none", message |-> "", hasPath |-> FALSE, path |-> << >>]

\* An error of a built-in or of tc: it has no 'path'.
TypeError(msg) ==
    [name |-> "TypeError", message |-> msg, hasPath |-> FALSE, path |-> << >>]

\* Object.assign(new TypeError(msg), {path: [...path]}).
TypeErrorAt(msg, p) ==
    [name |-> "TypeError", message |-> msg, hasPath |-> TRUE, path |-> p]

FunctionMessage == "Cannot clone a function."
AccessorMessage == "Cannot clone property accessors."

Front(s) == SubSeq(s, 1, Len(s) - 1)

Init ==
    \E inp \in Inputs :
        /\ heap = inp.heap
        /\ root = inp.root
        /\ options = inp.options
        /\ status = "ready"
        /\ result = NoVal
        /\ error = NoError
        /\ clones = << >>
        /\ built = << >>
        /\ clonesByVisitedObject = [n \in Nodes |-> NoVal]
        /\ setOfVisitedPrototypes = {}
        /\ path = << >>
        /\ stack = << >>
        /\ arg = NoVal
        /\ ret = NoVal
        /\ OthersIdle

\* An exception leaves clone(): nothing catches it.
Throws(e) ==
    /\ status' = "thrown"
    /\ error' = e
    /\ stack' = << >>
    /\ arg' = NoVal
    /\ ret' = NoVal
    /\ UNCHANGED <<heap, root, options, otherVars, result, clones, built,
                   clonesByVisitedObject, setOfVisitedPrototypes, path>>

\* main() returns v to its caller.
Returns(v) ==
    /\ ret' = v
    /\ arg' = NoVal
    /\ UNCHANGED <<heap, root, options, otherVars, status, result, error, clones, built,
                   clonesByVisitedObject, setOfVisitedPrototypes, path, stack>>

\* clone(): the checks of the arguments, then main(object).
Call ==
    /\ status = "ready"
    /\ IF isPrimitive(root)
       THEN Throws(TypeError("expected a non-primitive value."))
       ELSE /\ status' = "running"
            /\ arg' = root
            /\ UNCHANGED <<heap, root, options, otherVars, result, error, clones, built,
                           clonesByVisitedObject, setOfVisitedPrototypes, path,
                           stack, ret>>

Entering == status = "running" /\ arg # NoVal

\* Mutant of IsVisited: the table is never consulted.
NeverVisited(v) == FALSE

\* clonesByVisitedObject.has(node)
IsVisited(v) == v[1] = "object" /\ clonesByVisitedObject[v[2]] # NoVal

\* Mutant of MainFunction: allowFunctions is not looked at.
MainFunctionAlwaysReturned ==
    /\ Entering
    /\ TypeOf(arg) = "function"
    /\ Returns(arg)

\* main(): a function is returned as it is, or refused.
MainFunction ==
    /\ Entering
    /\ TypeOf(arg) = "function"
    /\ IF options.allowFunctions
       THEN Returns(arg)
       ELSE Throws(TypeErrorAt(FunctionMessage, path))

\* main(): an object that has a clone already.
MainVisited ==
    /\ Entering
    /\ TypeOf(arg) # "function"
    /\ IsVisited(arg)
    /\ Returns(clonesByVisitedObject[arg[2]])

\* main(): an object that is the prototype of an object visited before.
MainPrototype ==
    /\ Entering
    /\ TypeOf(arg) # "function"
    /\ ~IsVisited(arg)
    /\ arg \in setOfVisitedPrototypes
    /\ Returns(arg)

\* Mutant of MainNonObject: a value that is no object is returned as it is.
MainNonObjectReturned ==
    /\ Entering
    /\ TypeOf(arg) # "function"
    /\ ~IsVisited(arg)
    /\ arg \notin setOfVisitedPrototypes
    /\ ~IsObject(arg)
    /\ Returns(arg)

\* main(): Reflect.getPrototypeOf(node) throws when node is no object.
MainNonObject ==
    /\ Entering
    /\ TypeOf(arg) # "function"
    /\ ~IsVisited(arg)
    /\ arg \notin setOfVisitedPrototypes
    /\ ~IsObject(arg)
    /\ Throws(TypeError("Reflect.getPrototypeOf called on non-object"))

Unvisited ==
    /\ Entering
    /\ arg[1] = "object"
    /\ ~IsVisited(arg)
    /\ arg \notin setOfVisitedPrototypes

\* main(): setOfVisitedPrototypes.add(null) throws.
MainNullPrototype ==
    /\ Unvisited
    /\ heap[arg[2]].proto = Null
    /\ Throws(TypeError("Invalid value used in weak set"))

\* The factories "Function", "AsyncFunction" and "GeneratorFunction" are
\* (x) => x: for a node with such a tag rv is the node itself.
FactoryReturnsArgument(node) == node.kind = "Function"

\* ToBoolean: every object converts to true.
ToBoolean(v) ==
    CASE v[1] \in {"undefined", "null"} -> FALSE
      [] v[1] = "boolean" -> v = True
      [] v[1] \in {"number", "bigint"} -> v[2] # 0
      [] OTHER -> TRUE

\* ToNumber of a Number object: ToPrimitive calls Number.prototype.valueOf,
\* which returns the [[NumberData]].
ToNumber(x) == heap[x[2]].slot

\* new Boolean(value)
NewBoolean(value) ==
    [NewObject("Boolean", BooleanPrototype) EXCEPT
        !.slot = IF ToBoolean(value) THEN True ELSE False]

\* new Number(value)
NewNumber(value) ==
    [NewObject("Number", NumberPrototype) EXCEPT !.slot = ToNumber(value)]

\* Mutant of NewDate: new Date(), the time value is not taken over.
NewDateOfNoValue(value) ==
    [NewObject("Date", DatePrototype) EXCEPT !.slot = Num(0)]

\* new Date(value) for a value that has a [[DateValue]]: the time value is
\* taken over.
NewDate(value) ==
    [NewObject("Date", DatePrototype) EXCEPT !.slot = heap[value[2]].slot]

\* new RegExp(source, flags): a regular expression whose lastIndex is 0.
NewRegExp(source, flags) ==
    [NewObject("RegExp", RegExpPrototype) EXCEPT
        !.slot = <<"regexp", CHOOSE i \in 1..Len(Patterns) :
                      Patterns[i] = [source |-> source, flags |-> flags]>>,
        !.props = <<DataDesc(LastIndex, Num(0), TRUE, FALSE, FALSE)>>]

\* factoriesByTag[tag](x), or Object.create(proto) for a tag without factory.
Factory(x) ==
    LET node == heap[x[2]]
    IN  CASE node.kind = "Map" -> NewObject("Map", MapPrototype)
          [] node.kind = "Set" -> NewObject("Set", SetPrototype)
          [] node.kind = "Object" -> NewObject("Object", ObjectPrototype)
          [] node.kind = "Boolean" -> NewBoolean(x)
          [] node.kind = "Number" -> NewNumber(x)
          [] node.kind = "Date" -> NewDate(x)
          [] node.kind = "RegExp" ->
                NewRegExp(SourceOf(node.slot), FlagsOf(node.slot))
          [] OTHER -> NewObject("Object", node.proto)

\* if(Object.getPrototypeOf(rv) !== proto) Reflect.setPrototypeOf(rv, proto)
WithPrototype(rv, proto) ==
    IF rv.proto # proto THEN [rv EXCEPT !.proto = proto] ELSE rv

\* Mutant of Registered: the clone is not recorded.
NotRegistered(table, n, rv) == table

\* clonesByVisitedObject.set(node, rv)
Registered(table, n, rv) == [table EXCEPT ![n] = rv]

\* ignoreSymbols ? Object.getOwnPropertyNames(node) : Reflect.ownKeys(node)
KeysOf(node) ==
    LET all == [i \in 1..Len(node.props) |-> node.props[i].key]
    IN  IF options.ignoreSymbols
        THEN SelectSeq(all, LAMBDA k : ~IsSymbolKey(k))
        ELSE all

\* main(): the clone of an unvisited object is constructed and recorded, and
\* the loop over its keys begins.
MainEnter ==
    /\ Unvisited
    /\ heap[arg[2]].proto # Null
    /\ LET node == heap[arg[2]]
           rv == IF FactoryReturnsArgument(node) THEN arg ELSE Clone(Len(clones) + 1)
       IN  /\ setOfVisitedPrototypes' = setOfVisitedPrototypes \cup {node.proto}
           /\ IF FactoryReturnsArgument(node)
              THEN UNCHANGED <<clones, built>>
              ELSE /\ clones' = Append(clones, WithPrototype(Factory(arg), node.proto))
                   /\ built' = Append(built, arg)
           /\ clonesByVisitedObject' = Registered(clonesByVisitedObject, arg[2], rv)
           /\ stack' = Append(stack,
                  [node |-> arg, rv |-> rv, keys |-> KeysOf(node),
                   ki |-> 1, ei |-> 1, pc |-> "loop"])
    /\ arg' = NoVal
    /\ UNCHANGED <<heap, root, options, otherVars, status, result, error, path, ret>>

(***************************************************************************)
(* The loop of main() over the own keys of the node.                       *)
(***************************************************************************)
Top == stack[Len(stack)]

TopNode == heap[Top.node[2]]

TopKey == Top.keys[Top.ki]

\* Reflect.getOwnPropertyDescriptor(node, key)
TopDescriptor == OwnProp(TopNode, TopKey)

\* The activation on top of the stack goes on (nothing is being called).
Looping == status = "running" /\ arg = NoVal /\ ret = NoVal /\ stack # << >>

\* The activation on top of the stack gets the value of the call it made.
Resuming == status = "running" /\ ret # NoVal /\ stack # << >>

SetTop(s, f) == [s EXCEPT ![Len(s)] = f]

\* tc.isMap(node) || tc.isSet(node): the internal slot is looked for.
IsCollection(node) == node.kind \in {"Map", "Set"}

\* Whether the own property cur may be redefined as d (the descriptor d has
\* all its fields): what ValidateAndApplyPropertyDescriptor allows.
Redefinable(cur, d) ==
    \/ cur.configurable
    \/ /\ ~d.configurable
       /\ d.enumerable = cur.enumerable
       /\ d.type = cur.type
       /\ IF cur.type = "accessor"
          THEN d.get = cur.get /\ d.set = cur.set
          ELSE cur.writable \/ (~d.writable /\ d.value = cur.value)

\* Reflect.defineProperty(o, key, d) on an ordinary object.  It returns false
\* rather than throwing when the property cannot be defined.
DefineProperty(o, d) ==
    IF HasOwn(o, d.key)
    THEN IF Redefinable(OwnProp(o, d.key), d)
         THEN [o EXCEPT !.props = Put(o.props, d)]
         ELSE o
    ELSE IF o.ext THEN [o EXCEPT !.props = Append(o.props, d)] ELSE o

\* The nearest property named k on the prototype chain that starts at p.
RECURSIVE InheritedProp(_, _)
InheritedProp(p, k) ==
    IF p[1] = "object"
    THEN IF HasOwn(heap[p[2]], k)
         THEN OwnProp(heap[p[2]], k)
         ELSE InheritedProp(heap[p[2]].proto, k)
    ELSE Absent(k)

\* What the assignment o[k] = v does in strict mode ([[Set]] of an ordinary
\* object): "define" an own property, "update" the own one, call a "setter"
\* found on the prototype chain, or "throw".
AssignKind(o, k) ==
    LET d == IF HasOwn(o, k) THEN OwnProp(o, k) ELSE InheritedProp(o.proto, k)
    IN  CASE d.type = "accessor" ->
                IF d.set = Undefined THEN "throw" ELSE "setter"
          [] d.type = "data" /\ ~d.writable -> "throw"
          [] HasOwn(o, k) -> "update"
          [] OTHER -> IF o.ext THEN "define" ELSE "throw"

\* o after the assignment o[k] = v (that does not throw).  A setter is code
\* of the caller: it is taken to leave the clone alone.
Assigned(o, k, v) ==
    CASE AssignKind(o, k) = "define" ->
            [o EXCEPT !.props = Append(o.props, DataProp(k, v))]
      [] AssignKind(o, k) = "update" ->
            [o EXCEPT !.props = Put(o.props, [OwnProp(o, k) EXCEPT !.value = v])]
      [] OTHER -> o

\* rv.set(key, value) of a Map.
MapSet(o, k, v) ==
    IF HasEntry(o, k)
    THEN [o EXCEPT !.entries =
            [i \in 1..Len(o.entries) |->
                IF o.entries[i].key = k THEN [key |-> k, value |-> v]
                ELSE o.entries[i]]]
    ELSE [o EXCEPT !.entries = Append(o.entries, [key |-> k, value |-> v])]

\* Whether rv.set is a function: Map.prototype has a method 'set',
\* Set.prototype and Object.prototype have none.
HasSetMethod(o) == o.proto = MapPrototype

\* The object a value refers to: one constructed by the call, or one of the
\* source heap.
Deref(v) == IF v[1] = "clone" THEN clones[v[2]] ELSE heap[v[2]]

\* The object v refers to becomes o.
Store(v, o) ==
    IF v[1] = "clone"
    THEN /\ clones' = [clones EXCEPT ![v[2]] = o]
         /\ UNCHANGED heap
    ELSE /\ heap' = [heap EXCEPT ![v[2]] = o]
         /\ UNCHANGED clones

\* The loop reaches a data property: main(descriptor.value) is called.
LoopData ==
    /\ Looping
    /\ Top.pc = "loop"
    /\ Top.ki <= Len(Top.keys)
    /\ TopDescriptor.type = "data"
    /\ path' = Append(path, TopKey)
    /\ arg' = TopDescriptor.value
    /\ stack' = SetTop(stack, [Top EXCEPT !.pc = "value"])
    /\ UNCHANGED <<heap, root, options, otherVars, status, result, error, clones, built,
                   clonesByVisitedObject, setOfVisitedPrototypes, ret>>

\* Mutant of LoopAccessor: an allowed accessor is skipped, not copied.
LoopAccessorSkipped ==
    /\ Looping
    /\ Top.pc = "loop"
    /\ Top.ki <= Len(Top.keys)
    /\ TopDescriptor.type = "accessor"
    /\ IF options.allowAccessors
       THEN /\ path' = Append(path, TopKey)
            /\ stack' = SetTop(stack, [Top EXCEPT !.pc = "entries", !.ei = 1])
            /\ UNCHANGED <<heap, root, options, otherVars, status, result, error, clones,
                           built, clonesByVisitedObject, setOfVisitedPrototypes,
                           arg, ret>>
       ELSE Throws(TypeErrorAt(AccessorMessage, Append(path, TopKey)))

\* The loop reaches an accessor property: its descriptor is copied, or
\* refused.
LoopAccessor ==
    /\ Looping
    /\ Top.pc = "loop"
    /\ Top.ki <= Len(Top.keys)
    /\ TopDescriptor.type = "accessor"
    /\ IF options.allowAccessors
       THEN /\ path' = Append(path, TopKey)
            /\ Store(Top.rv, DefineProperty(Deref(Top.rv), TopDescriptor))
            /\ stack' = SetTop(stack, [Top EXCEPT !.pc = "entries", !.ei = 1])
            /\ UNCHANGED <<root, options, otherVars, status, result, error, built,
                           clonesByVisitedObject, setOfVisitedPrototypes, arg, ret>>
       ELSE Throws(TypeErrorAt(AccessorMessage, Append(path, TopKey)))

\* main(descriptor.value) has returned: the property of the clone is set.
DefineValue ==
    /\ Resuming
    /\ Top.pc = "value"
    /\ LET rv == Deref(Top.rv)
       IN  IF options.ignoreAttributes /\ AssignKind(rv, TopKey) = "throw"
           THEN Throws(TypeError("Cannot assign to read only property"))
           ELSE /\ Store(Top.rv,
                       IF options.ignoreAttributes
                       THEN Assigned(rv, TopKey, ret)
                       ELSE DefineProperty(rv, [TopDescriptor EXCEPT !.value = ret]))
                /\ stack' = SetTop(stack, [Top EXCEPT !.pc = "entries", !.ei = 1])
                /\ ret' = NoVal
                /\ UNCHANGED <<root, options, otherVars, status, result, error, built,
                               clonesByVisitedObject, setOfVisitedPrototypes,
                               path, arg>>

\* Inside the loop over the keys: the next entry of a Map or Set node;
\* main(value) is called.
NextEntry ==
    /\ Looping
    /\ Top.pc = "entries"
    /\ IsCollection(TopNode)
    /\ Top.ei <= Len(TopNode.entries)
    /\ path' = Append(path, TopNode.entries[Top.ei].key)
    /\ arg' = TopNode.entries[Top.ei].value
    /\ stack' = SetTop(stack, [Top EXCEPT !.pc = "entry"])
    /\ UNCHANGED <<heap, root, options, otherVars, status, result, error, clones, built,
                   clonesByVisitedObject, setOfVisitedPrototypes, ret>>

\* main(value) has returned: rv.set(key, value).
SetEntry ==
    /\ Resuming
    /\ Top.pc = "entry"
    /\ LET rv == Deref(Top.rv)
       IN  IF HasSetMethod(rv)
           THEN /\ Store(Top.rv, MapSet(rv, TopNode.entries[Top.ei].key, ret))
                /\ path' = Front(path)
                /\ stack' = SetTop(stack, [Top EXCEPT !.pc = "entries", !.ei = @ + 1])
                /\ ret' = NoVal
                /\ UNCHANGED <<root, options, otherVars, status, result, error, built,
                               clonesByVisitedObject, setOfVisitedPrototypes, arg>>
           ELSE Throws(TypeError("rv.set is not a function"))

\* The end of one round of the loop over the keys.
EndKey ==
    /\ Looping
    /\ Top.pc = "entries"
    /\ ~IsCollection(TopNode) \/ Top.ei > Len(TopNode.entries)
    /\ path' = Front(path)
    /\ stack' = SetTop(stack, [Top EXCEPT !.pc = "loop", !.ki = @ + 1])
    /\ UNCHANGED <<heap, root, options, otherVars, status, result, error, clones, built,
                   clonesByVisitedObject, setOfVisitedPrototypes, arg, ret>>

\* After the loop: the extensibility is copied and main() returns rv.
Finish ==
    /\ Looping
    /\ Top.pc = "loop"
    /\ Top.ki > Len(Top.keys)
    /\ IF ~options.ignoreExtensibility /\ ~TopNode.ext
       THEN Store(Top.rv, [Deref(Top.rv) EXCEPT !.ext = FALSE])
       ELSE UNCHANGED <<heap, clones>>
    /\ stack' = Front(stack)
    /\ ret' = Top.rv
    /\ UNCHANGED <<root, options, otherVars, status, result, error, built,
                   clonesByVisitedObject, setOfVisitedPrototypes, path, arg>>

\* clone() returns what main(object) returned.
Return ==
    /\ status = "running"
    /\ stack = << >>
    /\ ret # NoVal
    /\ status' = "returned"
    /\ result' = ret
    /\ ret' = NoVal
    /\ UNCHANGED <<heap, root, options, otherVars, error, clones, built,
                   clonesByVisitedObject, setOfVisitedPrototypes, path, stack, arg>>

Next ==
    \/ Call
    \/ MainFunction
    \/ MainVisited
    \/ MainPrototype
    \/ MainNonObject
    \/ MainNullPrototype
    \/ MainEnter
    \/ LoopData
    \/ LoopAccessor
    \/ DefineValue
    \/ NextEntry
    \/ SetEntry
    \/ EndKey
    \/ Finish
    \/ Return

Spec == Init /\ [][Next]_vars

\* clone() runs to its end: nothing suspends it.
FairSpec == Spec /\ WF_vars(Next)

TypeOK ==
    /\ status \in {"ready", "running", "returned", "thrown"}
    /\ Len(built) = Len(clones)
    /\ \A n \in Nodes :
          clonesByVisitedObject[n] \in
              {NoVal, Obj(n)} \cup {Clone(i) : i \in 1..Len(clones)}
    /\ (arg # NoVal) => (ret = NoVal)

(***************************************************************************)
(* Properties of clone.                                                    *)
(***************************************************************************)
Done == status \in {"returned", "thrown"}

\* The source object n has been visited: it has a clone in the table.
Visited(n) == clonesByVisitedObject[n] # NoVal

\* The clone of the visited source object n.
CloneOf(n) == Deref(clonesByVisitedObject[n])

\* The data properties of o, among the keys the loop of main() visits, whose
\* value is an object of the source heap.
ObjectProps(o) ==
    { i \in 1..Len(o.props) :
        /\ o.props[i].type = "data"
        /\ o.props[i].value[1] = "object"
        /\ ~(options.ignoreSymbols /\ IsSymbolKey(o.props[i].key)) }

\* The source is a graph of plain objects whose properties are data
\* properties that refer to objects of the graph.
ObjectGraph ==
    /\ root[1] = "object"
    /\ \A n \in Nodes :
         /\ heap[n].kind = "Object"
         /\ \A i \in 1..Len(heap[n].props) :
               heap[n].props[i].type = "data" /\ heap[n].props[i].value[1] = "object"

\* The value of the own data property k of o, NoVal when there is none.
DataValue(o, k) ==
    IF HasOwn(o, k) /\ OwnProp(o, k).type = "data"
    THEN OwnProp(o, k).value
    ELSE NoVal

\* C1 (as claimed): for a graph of objects whose data properties refer to
\* objects of the graph, when clone(root) returns every reference is
\* mirrored: if the source object s has a property k that refers to the
\* source object t, the clone of s has a property k that refers to the clone
\* of t.
C1_EveryReferenceMirrored ==
    (ObjectGraph /\ options = DefaultOptions /\ status = "returned") =>
        \A n \in Nodes : Visited(n) =>
            \A i \in ObjectProps(heap[n]) :
                LET t == heap[n].props[i].value[2]
                IN  /\ Visited(t)
                    /\ DataValue(CloneOf(n), heap[n].props[i].key)
                         = clonesByVisitedObject[t]

\* C2 (as claimed): when clone returns, any two properties that refer to the
\* same source object refer to one and the same object of the result, and
\* that object is a clone, not the source object.
C2_SharedObjectHasOneClone ==
    (status = "returned") =>
        \A n1, n2 \in Nodes : (Visited(n1) /\ Visited(n2)) =>
            \A i1 \in ObjectProps(heap[n1]), i2 \in ObjectProps(heap[n2]) :
                LET p1 == heap[n1].props[i1]
                    p2 == heap[n2].props[i2]
                    v1 == DataValue(CloneOf(n1), p1.key)
                    v2 == DataValue(CloneOf(n2), p2.key)
                IN  (<<n1, i1>> # <<n2, i2>> /\ p1.value = p2.value) =>
                        (v1 = v2 /\ v1[1] = "clone" /\ v1 # p1.value)

\* C3: the clone of a node is in the visited-node table before any of the
\* node's property values is visited: every activation of main() that is in
\* its loop over the keys (every ancestor of the node being visited) has its
\* clone in the table.
C3_CloneRecordedBeforeRecursion ==
    \A i \in 1..Len(stack) :
        /\ stack[i].node[1] = "object"
        /\ clonesByVisitedObject[stack[i].node[2]] = stack[i].rv

\* C3, witness: an ancestor is visited again (a cycle) while it and a
\* descendant are in their loops.
C3_Witness ==
    /\ Entering
    /\ Len(stack) >= 2
    /\ arg = stack[1].node

\* At most one clone has been constructed for each source object.
AtMostOneClone == \A i, j \in 1..Len(built) : built[i] = built[j] => i = j

\* A visit of an object that has a clone returns that clone and constructs
\* nothing.
VisitedStep ==
    (Entering /\ arg[1] = "object" /\ Visited(arg[2])) =>
        /\ clones' = clones
        /\ built' = built
        /\ ret' = clonesByVisitedObject[arg[2]]

\* C4: during one call at most one clone is constructed for each source
\* object; a later visit of the object returns the clone of the table and
\* constructs nothing.
C4_OneCloneForEachObject == []AtMostOneClone /\ [][VisitedStep]_vars

\* C4, witness: an object is visited that has its clone already, after
\* another object has been cloned.
C4_Witness ==
    /\ status = "running"
    /\ ret # NoVal
    /\ Len(built) >= 2
    /\ ret = Clone(1)

\* The data properties of o whose value is a function.
FunctionProps(o) ==
    { i \in 1..Len(o.props) :
        /\ o.props[i].type = "data"
        /\ TypeOf(o.props[i].value) = "function"
        /\ ~(options.ignoreSymbols /\ IsSymbolKey(o.props[i].key)) }

\* The accessor properties of o among the keys the loop of main() visits.
AccessorProps(o) ==
    { i \in 1..Len(o.props) :
        /\ o.props[i].type = "accessor"
        /\ ~(options.ignoreSymbols /\ IsSymbolKey(o.props[i].key)) }

\* The options are the default ones, but for the one named.
DefaultBut(name) ==
    \E b \in BOOLEAN :
        options = CASE name = "allowFunctions" -> [DefaultOptions EXCEPT !.allowFunctions = b]
                    [] name = "allowAccessors" -> [DefaultOptions EXCEPT !.allowAccessors = b]
                    [] OTHER -> DefaultOptions

\* A visit of a function: refused with a TypeError unless allowFunctions,
\* and then returned as it is.
FunctionStep ==
    (Entering /\ TypeOf(arg) = "function") =>
        IF options.allowFunctions
        THEN status' = "running" /\ ret' = arg /\ clones' = clones
        ELSE /\ status' = "thrown"
             /\ error'.name = "TypeError"
             /\ error'.message = FunctionMessage
             /\ result' = NoVal

\* What a finished call says about the functions of the source.
FunctionsOfResult ==
    /\ (status = "thrown") => (result = NoVal /\ error.name = "TypeError")
    /\ (status = "returned" /\ ~options.allowFunctions) =>
          /\ TypeOf(root) # "function"
          /\ \A n \in Nodes : Visited(n) => FunctionProps(heap[n]) = {}
    /\ (status = "returned" /\ options.allowFunctions /\ DefaultBut("allowFunctions")) =>
          /\ (TypeOf(root) = "function") => (result = root)
          /\ \A n \in Nodes : Visited(n) =>
                \A i \in FunctionProps(heap[n]) :
                    DataValue(CloneOf(n), heap[n].props[i].key) = heap[n].props[i].value

\* C5: with the default policy clone throws a TypeError as soon as it visits
\* a function (a property value or the root) and returns no clone; with
\* allowFunctions the visit succeeds and the property of the clone holds the
\* very same function as the source.
C5_FunctionsRefusedOrShared == []FunctionsOfResult /\ [][FunctionStep]_vars

\* C5, witness: a call with allowFunctions has returned the clone of an
\* object that has a function as a property value.
C5_Witness ==
    /\ status = "returned"
    /\ options.allowFunctions
    /\ root[1] = "object"
    /\ FunctionProps(heap[root[2]]) # {}
    /\ \E i \in FunctionProps(heap[root[2]]) :
          DataValue(clones[result[2]], heap[root[2]].props[i].key) = Fn

\* The loop reaches an accessor: refused with a TypeError unless
\* allowAccessors, and then the clone gets the very same descriptor.
AccessorStep ==
    (Looping /\ Top.pc = "loop" /\ Top.ki <= Len(Top.keys)
             /\ TopDescriptor.type = "accessor") =>
        IF options.allowAccessors
        THEN /\ status' = "running"
             /\ HasOwn(clones'[Top.rv[2]], TopKey)
             /\ OwnProp(clones'[Top.rv[2]], TopKey) = TopDescriptor
        ELSE /\ status' = "thrown"
             /\ error'.name = "TypeError"
             /\ error'.message = AccessorMessage

\* What a returned call says about the accessors of the source.
AccessorsOfResult ==
    (status = "returned") =>
        \A n \in Nodes : Visited(n) =>
            \A i \in AccessorProps(heap[n]) :
                /\ options.allowAccessors
                /\ HasOwn(CloneOf(n), heap[n].props[i].key)
                /\ OwnProp(CloneOf(n), heap[n].props[i].key) = heap[n].props[i]

\* C6: with the default policy clone throws a TypeError when a visited node
\* has an own accessor property; with allowAccessors the clone gets an own
\* accessor property under the same key with the identical getter and setter.
C6_AccessorsRefusedOrShared == []AccessorsOfResult /\ [][AccessorStep]_vars

\* C6, witness: a call with allowAccessors has returned, and the clone of the
\* root has the accessor of the root.
C6_Witness ==
    /\ status = "returned"
    /\ root[1] = "object"
    /\ AccessorProps(heap[root[2]]) # {}
    /\ \E i \in AccessorProps(heap[root[2]]) :
          /\ HasOwn(clones[result[2]], heap[root[2]].props[i].key)
          /\ OwnProp(clones[result[2]], heap[root[2]].props[i].key).get = Getter

\* The value that the key k leads to from the value v: the value of an own
\* data property, or of an entry of a Map or Set; NoVal when there is none.
StepTo(v, k) ==
    IF v[1] # "object" THEN NoVal
    ELSE IF DataValue(heap[v[2]], k) # NoVal THEN DataValue(heap[v[2]], k)
    ELSE IF HasEntry(heap[v[2]], k) THEN EntryValue(heap[v[2]], k)
    ELSE NoVal

\* The value that the keys of p lead to from the value v.
RECURSIVE Follow(_, _)
Follow(v, p) == IF p = << >> THEN v ELSE Follow(StepTo(v, Head(p)), Tail(p))

\* C7 (as claimed): when clone fails on a function or an accessor, the error
\* carries the path of keys that leads from the root to the function, or to
\* the accessor property, with no key of a finished sibling in it.
C7_PathLeadsToOffender ==
    (status = "thrown" /\ error.message \in {FunctionMessage, AccessorMessage}) =>
        /\ error.hasPath
        /\ (error.message = FunctionMessage) =>
              TypeOf(Follow(root, error.path)) = "function"
        /\ (error.message = AccessorMessage) =>
              /\ error.path # << >>
              /\ LET holder == Follow(root, Front(error.path))
                     key == error.path[Len(error.path)]
                 IN  /\ holder[1] = "object"
                     /\ HasOwn(heap[holder[2]], key)
                     /\ OwnProp(heap[holder[2]], key).type = "accessor"

\* The root is a primitive value or null.
PrimitiveRoot == isPrimitive(root) \/ root = Null

\* C8: clone of a primitive root or of null throws a TypeError before any
\* clone is constructed and before anything is recorded in the visited-node
\* table.
C8_PrimitiveRootThrows ==
    PrimitiveRoot =>
        /\ status # "returned"
        /\ (status = "thrown") => (error.name = "TypeError" /\ result = NoVal)
        /\ (status # "thrown") => ENABLED Next
        /\ clones = << >>
        /\ stack = << >>
        /\ \A n \in Nodes : ~Visited(n)

\* C8, witness: the call clone(null) has thrown.
C8_Witness == root = Null /\ status = "thrown" /\ error.name = "TypeError"

\* What a value of the source becomes in the result: an object its clone, any
\* other value itself.
Image(v) ==
    IF v[1] # "object" THEN v
    ELSE IF Visited(v[2]) THEN clonesByVisitedObject[v[2]]
    ELSE NoVal

\* The root is a Map or Set (as kind says) that holds no function.
CollectionRoot(kind) ==
    /\ root[1] = "object"
    /\ heap[root[2]].kind = kind
    /\ \A i \in 1..Len(heap[root[2]].entries) :
          TypeOf(heap[root[2]].entries[i].value) # "function"

\* C9 (as claimed): for every Map m, with or without own properties, clone(m)
\* returns a distinct Map with the same keys, each mapped to the clone of the
\* source value, a primitive value to itself.
C9_MapEntriesCloned ==
    (CollectionRoot("Map") /\ Done) =>
        /\ status = "returned"
        /\ result[1] = "clone"
        /\ LET c == clones[result[2]]
               m == heap[root[2]]
           IN  /\ c.kind = "Map"
               /\ Len(c.entries) = Len(m.entries)
               /\ \A i \in 1..Len(m.entries) :
                     /\ c.entries[i].key = m.entries[i].key
                     /\ c.entries[i].value = Image(m.entries[i].value)

\* C10 (as claimed): for every Set s, with or without own properties,
\* clone(s) returns a distinct Set whose elements are exactly the clones of
\* the elements of s.
C10_SetElementsCloned ==
    (CollectionRoot("Set") /\ Done) =>
        /\ status = "returned"
        /\ result[1] = "clone"
        /\ LET c == clones[result[2]]
               m == heap[root[2]]
           IN  /\ c.kind = "Set"
               /\ Len(c.entries) = Len(m.entries)
               /\ {c.entries[i].value : i \in 1..Len(c.entries)}
                    = {Image(m.entries[i].value) : i \in 1..Len(m.entries)}

(***************************************************************************)
(* Clones of plain data.                                                   *)
(***************************************************************************)
\* The source is plain data: the root is a plain object and every object is
\* a plain object with the default prototype whose properties are data
\* properties holding no function.
PlainData ==
    /\ root[1] = "object"
    /\ \A n \in Nodes :
          /\ heap[n].kind = "Object"
          /\ heap[n].proto = ObjectPrototype
          /\ \A i \in 1..Len(heap[n].props) :
                /\ heap[n].props[i].type = "data"
                /\ TypeOf(heap[n].props[i].value) # "function"

\* C11 (as claimed, first part): for a value v without functions and without
\* accessors, clone(v) succeeds and its result is not v itself.
C11_PlainDataIsCloned ==
    (PlainData /\ options = DefaultOptions /\ Done) =>
        (status = "returned" /\ result # root)

(***************************************************************************)
(* Attributes of the properties.                                           *)
(***************************************************************************)
\* The source object n has a clone constructed by the call.
FreshlyCloned(n) == Visited(n) /\ clonesByVisitedObject[n][1] = "clone"

\* The data properties of o among the keys the loop of main() visits.
DataProps(o) ==
    { i \in 1..Len(o.props) :
        /\ o.props[i].type = "data"
        /\ ~(options.ignoreSymbols /\ IsSymbolKey(o.props[i].key)) }

\* C12 (as claimed): when clone has returned, every data property of a
\* cloned object is a data property of its clone: with ignoreAttributes false
\* it has the attributes of the source property, with ignoreAttributes true
\* it is writable, enumerable and configurable.
C12_AttributesCopiedOrReset ==
    (status = "returned") =>
        \A n \in Nodes : FreshlyCloned(n) =>
            \A i \in DataProps(heap[n]) :
                LET p == heap[n].props[i]
                    c == CloneOf(n)
                IN  /\ HasOwn(c, p.key)
                    /\ LET q == OwnProp(c, p.key)
                       IN  /\ q.type = "data"
                           /\ IF options.ignoreAttributes
                              THEN q.writable /\ q.enumerable /\ q.configurable
                              ELSE /\ q.writable = p.writable
                                   /\ q.enumerable = p.enumerable
                                   /\ q.configurable = p.configurable

(***************************************************************************)
(* Extensibility.                                                          *)
(***************************************************************************)
\* C13 (as claimed): when clone has returned, the clone of every visited
\* object is extensible if ignoreExtensibility is true, and otherwise
\* extensible exactly when the source object is.
C13_ExtensibilityCopiedOrReset ==
    (status = "returned") =>
        \A n \in Nodes : Visited(n) =>
            CloneOf(n).ext = (options.ignoreExtensibility \/ heap[n].ext)

(***************************************************************************)
(* Prototypes.                                                             *)
(***************************************************************************)
\* C14 (as claimed): for a graph of plain objects with any prototypes (the
\* default one, an object, or null) clone(root) succeeds, and the prototype
\* of the clone of every visited object is the prototype of the source
\* object.
C14_PrototypeShared ==
    (ObjectGraph /\ options = DefaultOptions /\ Done) =>
        /\ status = "returned"
        /\ \A n \in Nodes : Visited(n) => CloneOf(n).proto = heap[n].proto

(***************************************************************************)
(* Dates, regular expressions, Boolean and Number objects.                 *)
(***************************************************************************)
\* The root is an object of the given kind.
RootOfKind(kind) == root[1] = "object" /\ heap[root[2]].kind = kind

\* C15: clone of a Date returns; the result is a Date constructed by the
\* call, so another object than the source, with the same time value.
C15_DateKeepsTime ==
    (RootOfKind("Date") /\ Done) =>
        /\ status = "returned"
        /\ result[1] = "clone"
        /\ Deref(result).kind = "Date"
        /\ Deref(result).proto = DatePrototype
        /\ Deref(result).slot = heap[root[2]].slot

\* C15, witness: the clone of new Date(1000) has been returned.
C15_Witness ==
    /\ RootOfKind("Date")
    /\ heap[root[2]].slot = Num(1000)
    /\ status = "returned"
    /\ Deref(result).slot = Num(1000)

\* C16 (as claimed): clone of a regular expression returns; the result is a
\* regular expression constructed by the call with the source and the flags
\* of the source object.
C16_RegExpKeepsPattern ==
    (RootOfKind("RegExp") /\ Done) =>
        /\ status = "returned"
        /\ result[1] = "clone"
        /\ Deref(result).kind = "RegExp"
        /\ SourceOf(Deref(result).slot) = SourceOf(heap[root[2]].slot)
        /\ FlagsOf(Deref(result).slot) = FlagsOf(heap[root[2]].slot)

\* C17 (as claimed): clone of a Boolean or Number object returns; the result
\* is an object of the same kind constructed by the call that wraps the same
\* primitive value.
C17_BoxedValueKept ==
    ((RootOfKind("Boolean") \/ RootOfKind("Number")) /\ Done) =>
        /\ status = "returned"
        /\ result[1] = "clone"
        /\ Deref(result).kind = heap[root[2]].kind
        /\ Deref(result).slot = heap[root[2]].slot

(***************************************************************************)
(* The source graph.                                                       *)
(***************************************************************************)
\* C18 (as claimed): no step of clone changes an object of the source heap:
\* its own properties with their values and attributes, its prototype, its
\* extensibility.
C18_SourceNeverMutated == [][heap' = heap]_vars

(***************************************************************************)
(* Primitive property values.                                              *)
(***************************************************************************)
\* The root is a plain object with at least one own property, and its own
\* properties are data properties that hold primitive values or null.
PrimitiveData ==
    /\ root[1] = "object"
    /\ heap[root[2]].kind = "Object"
    /\ heap[root[2]].proto = ObjectPrototype
    /\ heap[root[2]].props # << >>
    /\ \A i \in 1..Len(heap[root[2]].props) :
          /\ heap[root[2]].props[i].type = "data"
          /\ heap[root[2]].props[i].value \in Primitives

\* C23 (as claimed): for a plain object whose own data properties hold
\* primitive values (null and undefined included), clone does not throw and
\* returns a new object with the same keys and the identical values.
C23_PrimitivesCopied ==
    (PrimitiveData /\ options = DefaultOptions /\ Done) =>
        /\ status = "returned"
        /\ result[1] = "clone"
        /\ Len(Deref(result).props) = Len(heap[root[2]].props)
        /\ \A i \in 1..Len(heap[root[2]].props) :
              LET p == heap[root[2]].props[i]
              IN  /\ HasOwn(Deref(result), p.key)
                  /\ OwnProp(Deref(result), p.key).value = p.value

(***************************************************************************)
(* What the result shares with the source graph.                           *)
(***************************************************************************)
\* The objects that the data properties of the object v refer to.
DataSuccessors(v) ==
    { Deref(v).props[i].value : i \in
        { j \in 1..Len(Deref(v).props) :
            /\ Deref(v).props[j].type = "data"
            /\ Deref(v).props[j].value[1] \in {"object", "clone"} } }

\* The objects reachable from the objects objs through data properties.
RECURSIVE ReachableThroughData(_)
ReachableThroughData(objs) ==
    LET more == objs \cup UNION { DataSuccessors(v) : v \in objs }
    IN  IF more = objs THEN objs ELSE ReachableThroughData(more)

\* C24 (as claimed): when clone returns, no object of the source graph is
\* reachable from the result through data properties, also when an object
\* of the graph is the prototype of another object of the graph.
C24_OnlyPrototypesShared ==
    (ObjectGraph /\ status = "returned") =>
        \A v \in ReachableThroughData({result}) : v[1] # "object"

(***************************************************************************)
(* Part 2: JsonObjects.equals (src/unnamed/part_002).                      *)
(*                                                                         *)
(* A value is a tuple <<type, id, items, keys>>.  For a number, id is the  *)
(* number.  For an array and a plain object, id is its identity: the       *)
(* argument it belongs to (two arguments share no array and no object,     *)
(* unless they are one and the same value); items are the elements of an   *)
(* array or the property values of an object, keys the keys of an object   *)
(* in the order of Object.entries.                                          *)
(***************************************************************************)
\* Greatest length of an array and greatest number of properties of an object.
MaxLength == 2

JsonNumber(n) == <<"number", n, << >>, << >>>>
JsonUndefined == <<"undefined", 0, << >>, << >>>>
JsonNull == <<"null", 0, << >>, << >>>>
JsonString == <<"string", 0, << >>, << >>>>
JsonArray(id, items) == <<"array", id, items, << >>>>
JsonObject(id, keys, values) == <<"object", id, values, keys>>

\* Property keys, and the keys of the elements of an array.
Keys == <<"a", "b", "c", "d">>
IndexKeys == <<"0", "1", "2", "3">>
ExtraKey == "extraprop"

\* The lists of keys an object of the model may have.
KeyLists ==
    { [i \in 1..Len(is) |-> Keys[is[i]]] :
        is \in { js \in UNION { [1..n -> 1..MaxLength] : n \in 0..MaxLength } :
                   \A i, j \in 1..Len(js) : i < j => js[i] < js[j] } }

Arrays(elements) ==
    { JsonArray(1, items) :
        items \in UNION { [1..n -> elements] : n \in 0..MaxLength } }

Objects(elements) ==
    UNION { { JsonObject(1, ks, vs) : vs \in [1..Len(ks) -> elements] } :
              ks \in KeyLists }

\* The leaves, and the arrays and objects of leaves.
Flat(leaves) == leaves \cup Arrays(leaves) \cup Objects(leaves)

\* The arrays and objects whose elements are leaves or arrays and objects of
\* leaves.
Nested(leaves) == Arrays(Flat(leaves)) \cup Objects(Flat(leaves))

IsArray(v) == v[1] = "array"

\* tc.isPlainObject, for the values of the model.
isPlainObject(v) == v[1] = "object"

Containers(values) == { v \in values : IsArray(v) \/ isPlainObject(v) }

\* object === otherObject, and Object.is, for the values of the model.
ObjectIs(v, w) == v[1] = w[1] /\ v[2] = w[2]

hasOwnProperty(v, key) == \E i \in 1..Len(v[4]) : v[4][i] = key

\* v[key] of a plain object.
Get(v, key) ==
    IF hasOwnProperty(v, key)
    THEN v[3][CHOOSE i \in 1..Len(v[4]) : v[4][i] = key]
    ELSE JsonUndefined

\* array[i] (i counts from 1 here).
At(v, i) == IF i <= Len(v[3]) THEN v[3][i] ELSE JsonUndefined

\* The test of the elements beyond the shorter of two arrays of different
\* lengths: all of them are undefined.
ExtrasUndefined(array, otherArray) ==
    LET longer == IF Len(array[3]) > Len(otherArray[3]) THEN array ELSE otherArray
        shorter == IF Len(array[3]) > Len(otherArray[3]) THEN otherArray ELSE array
    IN  \A i \in (Len(shorter[3]) + 1)..Len(longer[3]) :
            longer[3][i][1] = "undefined"

\* Mutant of OtherEntriesOwned: the second loop is left out.
OtherEntriesIgnored(obj, other, au) == TRUE

\* The loop over Object.entries(otherObject): every property of otherObject
\* (but an undefined one, with allowUndefined) is an own property of object.
OtherEntriesOwned(obj, other, au) ==
    \A i \in 1..Len(other[4]) :
        \/ au /\ other[3][i][1] = "undefined"
        \/ hasOwnProperty(obj, other[4][i])

RECURSIVE equals(_, _, _)
RECURSIVE ElementsEqual(_, _, _, _)
RECURSIVE EntriesEqual(_, _, _, _)

\* The loop over the elements of array, from the i-th on: "true", "false"
\* or "throw".
ElementsEqual(array, otherArray, au, i) ==
    IF i > Len(array[3]) THEN "true"
    ELSE LET element == array[3][i]
             otherElement == At(otherArray, i)
             r == IF isPrimitive(element)
                  THEN IF ObjectIs(element, otherElement) THEN "true" ELSE "false"
                  ELSE equals(element, otherElement, au)
         IN  IF r = "true" THEN ElementsEqual(array, otherArray, au, i + 1) ELSE r

\* The loop over Object.entries(object), from the i-th entry on.
EntriesEqual(obj, other, au, i) ==
    IF i > Len(obj[4]) THEN "true"
    ELSE LET key == obj[4][i]
             value == obj[3][i]
             r == IF isPrimitive(value)
                  THEN IF au /\ value[1] = "undefined" THEN "true"
                       ELSE IF ObjectIs(value, Get(other, key)) THEN "true"
                       ELSE "false"
                  ELSE equals(value, Get(other, key), au)
         IN  IF r = "true" THEN EntriesEqual(obj, other, au, i + 1) ELSE r

\* equals(object, otherObject, {allowUndefined}): "true", "false", or "throw"
\* when an expectation of tc fails.
equals(obj, other, au) ==
    IF isPrimitive(obj) \/ isPrimitive(other) THEN "throw"
    ELSE IF ObjectIs(obj, other) THEN "true"
    ELSE IF IsArray(obj)
    THEN IF ~IsArray(other) THEN "false"
         ELSE IF Len(obj[3]) # Len(other[3]) /\ ~au THEN "false"
         ELSE IF Len(obj[3]) # Len(other[3]) /\ ~ExtrasUndefined(obj, other)
         THEN "false"
         ELSE ElementsEqual(obj, other, au, 1)
    ELSE IF ~isPlainObject(obj) THEN "throw"
    ELSE IF IsArray(other) THEN "false"
    ELSE IF ~isPlainObject(other) THEN "throw"
    ELSE LET r == EntriesEqual(obj, other, au, 1)
         IN  IF r # "true" THEN r
             ELSE IF OtherEntriesOwned(obj, other, au) THEN "true" ELSE "false"

(***************************************************************************)
(* The arguments of the calls of equals.                                   *)
(***************************************************************************)
\* JSON.parse(JSON.stringify(v)): new arrays and objects (of identity id); an
\* undefined element of an array becomes null, a property whose value is
\* undefined is left out.
RECURSIVE JsonCopy(_, _)
JsonCopy(v, id) ==
    IF IsArray(v)
    THEN JsonArray(id, [i \in 1..Len(v[3]) |->
             IF v[3][i][1] = "undefined" THEN JsonNull ELSE JsonCopy(v[3][i], id)])
    ELSE IF isPlainObject(v)
    THEN LET kept == SelectSeq([i \in 1..Len(v[4]) |-> i],
                               LAMBDA i : v[3][i][1] # "undefined")
         IN  JsonObject(id, [j \in 1..Len(kept) |-> v[4][kept[j]]],
                        [j \in 1..Len(kept) |-> JsonCopy(v[3][kept[j]], id)])
    ELSE v

\* {...v, "extraprop": 0}: a new plain object with the own properties of v
\* (the elements of an array under their indices) and one more property.
WithExtraProperty(v, id) ==
    JsonObject(id,
        Append(IF IsArray(v) THEN [i \in 1..Len(v[3]) |-> IndexKeys[i]] ELSE v[4],
               ExtraKey),
        Append(v[3], JsonNumber(0)))

\* The same value as an argument of its own: identity id.
RECURSIVE Relabelled(_, _)
Relabelled(v, id) ==
    IF IsArray(v) \/ isPlainObject(v)
    THEN <<v[1], id, [i \in 1..Len(v[3]) |-> Relabelled(v[3][i], id)], v[4]>>
    ELSE v

\* Family 1: a nest of arrays and objects against itself, its JSON copy, and
\* the copy with one more property.
CopyLeaves == {JsonNumber(0)}

CopyOthers(x) == {x, JsonCopy(x, 2), WithExtraProperty(JsonCopy(x, 2), 2)}

\* Family 2: two arrays or objects of numbers, null and undefined; the
\* option allowUndefined varies.
PairLeaves == {JsonNumber(0), JsonNull, JsonUndefined}

\* Family 3: two arrays or objects with one element each, of any kind of
\* JSON value.
MixedElements ==
    {JsonNumber(0), JsonString, JsonNull, JsonArray(1, << >>),
     JsonObject(1, << >>, << >>)}

MixedContainers ==
    {JsonArray(1, <<e>>) : e \in MixedElements}
        \cup {JsonObject(1, <<Keys[1]>>, <<e>>) : e \in MixedElements}

\* No call of clone is made.
CloneIdle ==
    /\ heap = [n \in Nodes |-> EmptyObject]
    /\ root = NoVal
    /\ options = DefaultOptions
    /\ status = "idle"
    /\ result = NoVal
    /\ error = NoError
    /\ clones = << >>
    /\ built = << >>
    /\ clonesByVisitedObject = [n \in Nodes |-> NoVal]
    /\ setOfVisitedPrototypes = {}
    /\ path = << >>
    /\ stack = << >>
    /\ arg = NoVal
    /\ ret = NoVal

EqualsInit ==
    /\ CloneIdle
    /\ WrapperIdle
    /\ MemoIdle
    /\ SetsIdle
    /\ PermIdle
    /\ \/ \E x \in Nested(CopyLeaves) : \E y \in CopyOthers(x) :
             /\ object = x
             /\ otherObject = y
             /\ allowUndefined = FALSE
       \/ \E x \in Containers(Flat(PairLeaves)) :
          \E y \in Containers(Flat(PairLeaves)) : \E au \in BOOLEAN :
             /\ object = x
             /\ otherObject = Relabelled(y, 2)
             /\ allowUndefined = au
       \/ \E x \in MixedContainers : \E y \in MixedContainers :
             /\ object = x
             /\ otherObject = Relabelled(y, 2)
             /\ allowUndefined = FALSE
    /\ equalsResult = "ready"

\* The call returns true or false.
EqualsReturns ==
    /\ equalsResult = "ready"
    /\ equals(object, otherObject, allowUndefined) # "throw"
    /\ equalsResult' = equals(object, otherObject, allowUndefined)
    /\ UNCHANGED <<equalsOthers, object, otherObject, allowUndefined>>

\* The call throws the TypeError of an expectation of tc.
EqualsThrows ==
    /\ equalsResult = "ready"
    /\ equals(object, otherObject, allowUndefined) = "throw"
    /\ equalsResult' = "throw"
    /\ UNCHANGED <<equalsOthers, object, otherObject, allowUndefined>>

EqualsNext == EqualsReturns \/ EqualsThrows

EqualsSpec == EqualsInit /\ [][EqualsNext]_vars

(***************************************************************************)
(* Properties of JsonObjects.equals.                                       *)
(***************************************************************************)
EqualsDone == equalsResult \in {"true", "false", "throw"}

\* v is a JSON value: no undefined in it.
RECURSIVE JsonValid(_)
JsonValid(v) ==
    /\ v[1] # "undefined"
    /\ \A i \in 1..Len(v[3]) : JsonValid(v[3][i])

\* C19: for an array or plain object x of JSON values and default options,
\* equals(x, y) is true when y is x itself and when y is the JSON copy of x,
\* and false when y is the JSON copy of x spread into a plain object with one
\* more own property.
C19_EqualsOnCopies ==
    (EqualsDone /\ ~allowUndefined /\ JsonValid(object)) =>
        /\ (otherObject = object) => (equalsResult = "true")
        /\ (otherObject = JsonCopy(object, 2)) => (equalsResult = "true")
        /\ (otherObject = WithExtraProperty(JsonCopy(object, 2), 2)) =>
              (equalsResult = "false")

\* C19, witness: a plain object with a nested array has been compared with
\* its copy that has one more property, and equals has returned false.
C19_Witness ==
    /\ EqualsDone
    /\ isPlainObject(object)
    /\ \E i \in 1..Len(object[3]) : IsArray(object[3][i]) /\ Len(object[3][i][3]) > 0
    /\ otherObject = WithExtraProperty(JsonCopy(object, 2), 2)
    /\ equalsResult = "false"

\* The same value whatever the identities of its arrays and objects.
SameValue(v, w) == Relabelled(v, 0) = Relabelled(w, 0)

\* x and y have the same properties but for properties whose value is
\* undefined, which the other one has as undefined too or has not.
DifferOnlyInUndefined(x, y) ==
    \A i \in 1..MaxLength :
        LET v == Get(x, Keys[i])
            w == Get(y, Keys[i])
        IN  \/ v[1] = "undefined" /\ w[1] = "undefined"
            \/ /\ v[1] # "undefined"
               /\ w[1] # "undefined"
               /\ SameValue(v, w)

\* C20 (as claimed): with the default options, equals(x, y) is true for two
\* plain objects that differ only in properties whose value is undefined,
\* in either order of the arguments.
C20_UndefinedIsMissing ==
    ( /\ EqualsDone
      /\ ~allowUndefined
      /\ isPlainObject(object)
      /\ isPlainObject(otherObject)
      /\ ~hasOwnProperty(otherObject, ExtraKey)
      /\ DifferOnlyInUndefined(object, otherObject) ) =>
        (equalsResult = "true")

\* C28 (as claimed): for two JSON values made of plain objects, arrays and
\* primitives, null included, equals does not throw, and equals(a, b) is
\* equals(b, a); so it is false in either order when corresponding nested
\* values differ in kind.
C28_NeverThrowsOnJson ==
    (EqualsDone /\ JsonValid(object) /\ JsonValid(otherObject)) =>
        /\ equalsResult # "throw"
        /\ equalsResult = equals(otherObject, object, allowUndefined)

(***************************************************************************)
(* Part 3: Functions.withLimit, Functions.once and Functions.after         *)
(* (src/ts/Functions.ts).                                                  *)
(*                                                                         *)
(* One wrapper is made and then called.  The wrapped function is any       *)
(* function: it returns a new value each time it runs, it may throw, and   *)
(* it may call the wrapper while it runs, so a call of the wrapper can     *)
(* begin while earlier calls are waiting for the wrapped function.         *)
(***************************************************************************)
\* tc.isPositiveInteger: zero is accepted.
isPositiveInteger(k) == k >= 0

\* One call of the wrapper: the depth of the call stack when it began, the
\* invocation of the wrapped function it made (0: none), the value it
\* returned (NoVal: it has not returned yet).
WrapperCall(d, k, v) == [depth |-> d, invocation |-> k, returned |-> v]

\* The call ended with the exception of the wrapped function.
Thrown == <<"thrown", 0>>

\* How many times the wrapped function has been invoked.
Invocations == Cardinality({i \in 1..Len(calls) : calls[i].invocation # 0})

\* What the wrapped function returns on its k-th invocation.
ResultOf(k) == Num(k)

\* withLimit(f, nTimes), once(f) and after(callback, nTimes).
WrapperInit ==
    /\ CloneIdle
    /\ EqualsIdle
    /\ MemoIdle
    /\ SetsIdle
    /\ PermIdle
    /\ \E w \in {"withLimit", "once", "after"} : \E t \in 0..MaxTimes :
          /\ isPositiveInteger(t)
          /\ wrapper = w
          /\ nTimes = IF w = "once" THEN 1 ELSE t
          /\ wrapper_n = nTimes
          /\ wrapper_cache = IF w = "after" THEN NoVal ELSE Undefined
    /\ calls = << >>
    /\ pending = << >>

\* withLimitWrapper: 'if(n === 0) return cache;'.
WithLimitReturnsCache ==
    /\ wrapper \in {"withLimit", "once"}
    /\ Len(calls) < MaxCalls
    /\ wrapper_n = 0
    /\ calls' = Append(calls, WrapperCall(Len(pending), 0, wrapper_cache))
    /\ UNCHANGED <<wrapperOthers, wrapper, nTimes, wrapper_n, wrapper_cache, pending>>

\* withLimitWrapper: n is not 0, f is called.
WithLimitInvokes ==
    /\ wrapper \in {"withLimit", "once"}
    /\ Len(calls) < MaxCalls
    /\ wrapper_n # 0
    /\ calls' = Append(calls, WrapperCall(Len(pending), Invocations + 1, NoVal))
    /\ pending' = Append(pending, Len(calls) + 1)
    /\ UNCHANGED <<wrapperOthers, wrapper, nTimes, wrapper_n, wrapper_cache>>

\* withLimitWrapper: f has returned rv; '--n; if(n === 0) cache = rv;
\* return rv;'.
WithLimitResumes ==
    /\ wrapper \in {"withLimit", "once"}
    /\ pending # << >>
    /\ LET i == pending[Len(pending)]
           rv == ResultOf(calls[i].invocation)
       IN  /\ wrapper_n' = wrapper_n - 1
           /\ wrapper_cache' = IF wrapper_n' = 0 THEN rv ELSE wrapper_cache
           /\ calls' = [calls EXCEPT ![i].returned = rv]
           /\ pending' = Front(pending)
    /\ UNCHANGED <<wrapperOthers, wrapper, nTimes>>

\* The wrapped function throws: the call of the wrapper ends with its
\* exception, and no statement after the call of f or callback runs.
WrappedThrows ==
    /\ wrapper # "idle"
    /\ pending # << >>
    /\ calls' = [calls EXCEPT ![pending[Len(pending)]].returned = Thrown]
    /\ pending' = Front(pending)
    /\ UNCHANGED <<wrapperOthers, wrapper, nTimes, wrapper_n, wrapper_cache>>

\* A wrapper that would do nothing for one call more.
DoesNothingOnceMore(k) == k >= 0

\* The wrapper of after: 'if(n > 0) return undefined;'.
DoesNothing(k) == k > 0

\* The wrapper of after: '--n;', and n is still positive.
AfterDoesNothing ==
    /\ wrapper = "after"
    /\ Len(calls) < MaxCalls
    /\ wrapper_n' = wrapper_n - 1
    /\ DoesNothing(wrapper_n')
    /\ calls' = Append(calls, WrapperCall(Len(pending), 0, Undefined))
    /\ UNCHANGED <<wrapperOthers, wrapper, nTimes, wrapper_cache, pending>>

\* The wrapper of after: '--n;', n is not positive, callback is called.
AfterDelegates ==
    /\ wrapper = "after"
    /\ Len(calls) < MaxCalls
    /\ wrapper_n' = wrapper_n - 1
    /\ ~DoesNothing(wrapper_n')
    /\ calls' = Append(calls, WrapperCall(Len(pending), Invocations + 1, NoVal))
    /\ pending' = Append(pending, Len(calls) + 1)
    /\ UNCHANGED <<wrapperOthers, wrapper, nTimes, wrapper_cache>>

\* The wrapper of after returns what callback returned.
AfterResumes ==
    /\ wrapper = "after"
    /\ pending # << >>
    /\ LET i == pending[Len(pending)]
       IN  calls' = [calls EXCEPT ![i].returned = ResultOf(calls[i].invocation)]
    /\ pending' = Front(pending)
    /\ UNCHANGED <<wrapperOthers, wrapper, nTimes, wrapper_n, wrapper_cache>>

WrapperNext ==
    \/ WithLimitReturnsCache
    \/ WithLimitInvokes
    \/ WithLimitResumes
    \/ WrappedThrows
    \/ AfterDoesNothing
    \/ AfterDelegates
    \/ AfterResumes

WrapperSpec == WrapperInit /\ [][WrapperNext]_vars

(***************************************************************************)
(* Properties of withLimit, once and after.                                *)
(***************************************************************************)
\* The wrapped function has not thrown.
NoneThrown == \A i \in 1..Len(calls) : calls[i].returned # Thrown

\* No call of the wrapper was made by the wrapped function.
NoneNested == \A i \in 1..Len(calls) : calls[i].depth = 0

\* The i-th call has invoked the wrapped function and returns its result.
Delegated(i) ==
    /\ calls[i].invocation # 0
    /\ calls[i].returned \in {NoVal, ResultOf(calls[i].invocation)}

\* C21 (as claimed): for w = withLimit(f, n), f not throwing, f is invoked on
\* exactly the first n calls of w, each of which returns the result of f, and
\* every later call returns what f returned on its n-th invocation without
\* invoking f; with once(f), f runs at most once.
C21_LimitedInvocations ==
    (wrapper \in {"withLimit", "once"} /\ NoneThrown) =>
        /\ \A i \in 1..Len(calls) :
              IF i <= nTimes
              THEN Delegated(i)
              ELSE /\ calls[i].invocation = 0
                   /\ calls[i].returned =
                         IF nTimes = 0 THEN Undefined ELSE ResultOf(nTimes)
        /\ (wrapper = "once") => (Invocations <= 1)

\* The statement of C21 for the calls that the wrapped function does not
\* make itself: it holds.
WithLimitSequential ==
    NoneNested => C21_LimitedInvocations

\* C22: for w = after(callback, n) with n >= 1, the first n-1 calls of w
\* return undefined without invoking callback, the n-th call and every later
\* call delegate to callback.
C22_AfterDelegatesFromNth ==
    (wrapper = "after" /\ nTimes >= 1) =>
        \A i \in 1..Len(calls) :
            IF i < nTimes
            THEN calls[i].invocation = 0 /\ calls[i].returned = Undefined
            ELSE /\ calls[i].invocation # 0
                 /\ calls[i].returned \in
                       {NoVal, Thrown, ResultOf(calls[i].invocation)}

\* C22, witness: after(callback, 2) has done nothing on its first call and
\* has delegated on the two calls that followed.
C22_Witness ==
    /\ wrapper = "after"
    /\ nTimes = 2
    /\ Len(calls) >= 3
    /\ calls[1].returned = Undefined
    /\ calls[2].returned = ResultOf(1)
    /\ calls[3].returned = ResultOf(2)

(***************************************************************************)
(* Part 4: Functions.memoize, unmemoize, memoizeMethod and unmemoizeMethod *)
(* (src/ts/Functions.ts).                                                  *)
(*                                                                         *)
(* memoize makes one Map and one wrapper per call: the c-th call makes the *)
(* cache c and the wrapper Wrapper(c).  The wrapped function returns a new *)
(* value each time it runs, it may throw, and while it runs it may call    *)
(* the wrappers, memoize and unmemoize.                                    *)
(***************************************************************************)
\* The functions that are no wrappers.
Originals == {<<"function", 1>>, <<"function", 2>>}

\* The wrapper made by the c-th call of memoize.
Wrapper(c) == <<"wrapper", c>>

MemoFunctions == Originals \cup {Wrapper(c) : c \in 1..MaxWrappers}

\* The functions that exist.
KnownFunctions == Originals \cup {Wrapper(c) : c \in 1..Len(wrappers)}

\* The argument lists of the calls of the wrappers.
Arguments == {<<Num1>>, <<Null>>, <<Undefined>>}

\* The default hashFunction, JSON.stringify: undefined becomes null in an
\* array.
hashFunction(args) ==
    IF args[1] \in {Null, Undefined} THEN "[null]" ELSE "[1]"

CacheKeys == {hashFunction(a) : a \in Arguments}

\* new Map(), and a Map after clear().
EmptyCache == [k \in CacheKeys |-> NoVal]

\* A call of memoize, unmemoize, memoizeMethod or unmemoizeMethod: its
\* argument, "returned" or the error it threw, the value it returned.
LastCall(op, x, outcome, v) ==
    [op |-> op, arg |-> x, outcome |-> outcome, value |-> v]

\* No call has been made yet.
NoCall == LastCall("none", NoVal, "none", NoVal)

\* No wrapper has been called yet.
NoMemoCall ==
    [index |-> 0, wrapper |-> 0, args |-> << >>, closed |-> FALSE,
     stored |-> NoVal, invoked |-> FALSE, returned |-> NoVal]

AlreadyMemoized == "The given function is already memoized."
NotMemoized == "The given function is not a memoization wrapper."

isMemoized(fn) == cachesByFunction[fn] # 0

MemoInit ==
    /\ CloneIdle
    /\ EqualsIdle
    /\ WrapperIdle
    /\ SetsIdle
    /\ PermIdle
    /\ cachesByFunction = [f \in MemoFunctions |-> 0]
    /\ wrappedFunctionsByCache = [c \in 1..MaxWrappers |-> NoVal]
    /\ wrapperFunctionsByCache = [c \in 1..MaxWrappers |-> NoVal]
    /\ wrappers = << >>
    /\ caches = << >>
    /\ method \in Originals
    /\ lastCall = NoCall
    /\ memoCalls = 0
    /\ memoCall = NoMemoCall
    /\ invocations = [c \in 1..MaxWrappers |-> [k \in CacheKeys |-> 0]]
    /\ frames = << >>

RegistryUnchanged ==
    UNCHANGED <<cachesByFunction, wrappedFunctionsByCache,
                wrapperFunctionsByCache, wrappers, caches>>

\* A memoize that would not register the wrapper.
SetForFunctionOnly(map, fn, w, c) == [map EXCEPT ![fn] = c]

\* cachesByFunction.set(fn, cache); cachesByFunction.set(wrapper, cache).
SetForBoth(map, fn, w, c) == [map EXCEPT ![fn] = c, ![w] = c]

\* memoize(fn), called as op.
memoize(fn, op) ==
    IF isMemoized(fn)
    THEN /\ RegistryUnchanged
         /\ lastCall' = LastCall(op, fn, AlreadyMemoized, NoVal)
    ELSE LET c == Len(wrappers) + 1
         IN  /\ c <= MaxWrappers
             /\ caches' = Append(caches, EmptyCache)
             /\ wrappers' = Append(wrappers, [fn |-> fn, closed |-> FALSE])
             /\ cachesByFunction' = SetForBoth(cachesByFunction, fn, Wrapper(c), c)
             /\ wrappedFunctionsByCache' =
                   [wrappedFunctionsByCache EXCEPT ![c] = fn]
             /\ wrapperFunctionsByCache' =
                   [wrapperFunctionsByCache EXCEPT ![c] = Wrapper(c)]
             /\ lastCall' = LastCall(op, fn, "returned", Wrapper(c))

\* An unmemoize that would leave the wrapper in the registry.
DeletedWrappedOnly(map, wrapped, w) == [map EXCEPT ![wrapped] = 0]

\* cachesByFunction.delete(wrapped); cachesByFunction.delete(wrapper).
DeletedBoth(map, wrapped, w) == [map EXCEPT ![wrapped] = 0, ![w] = 0]

\* unmemoize(fn), called as op.
unmemoize(fn, op) ==
    IF ~isMemoized(fn)
    THEN /\ RegistryUnchanged
         /\ lastCall' = LastCall(op, fn, NotMemoized, NoVal)
    ELSE LET c == cachesByFunction[fn]
             wrapped == wrappedFunctionsByCache[c]
             w == wrapperFunctionsByCache[c]
         IN  /\ cachesByFunction' = DeletedBoth(cachesByFunction, wrapped, w)
             /\ wrappedFunctionsByCache' =
                   [wrappedFunctionsByCache EXCEPT ![c] = NoVal]
             /\ wrapperFunctionsByCache' =
                   [wrapperFunctionsByCache EXCEPT ![c] = NoVal]
             /\ caches' = [caches EXCEPT ![c] = EmptyCache]
             /\ wrappers' = [wrappers EXCEPT ![w[2]].closed = TRUE]
             /\ lastCall' = LastCall(op, fn, "returned", wrapped)

Memoize ==
    /\ \E fn \in KnownFunctions : memoize(fn, "memoize")
    /\ UNCHANGED <<memoOthers, method, memoCalls, memoCall, invocations, frames>>

Unmemoize ==
    /\ \E fn \in KnownFunctions : unmemoize(fn, "unmemoize")
    /\ UNCHANGED <<memoOthers, method, memoCalls, memoCall, invocations, frames>>

\* memoizeMethod(object, key): object[key] = memoize(object[key]).
MemoizeMethod ==
    /\ memoize(method, "memoizeMethod")
    /\ method' = IF isMemoized(method) THEN method ELSE Wrapper(Len(wrappers) + 1)
    /\ UNCHANGED <<memoOthers, memoCalls, memoCall, invocations, frames>>

\* unmemoizeMethod(object, key): object[key] = unmemoize(object[key]).
UnmemoizeMethod ==
    /\ unmemoize(method, "unmemoizeMethod")
    /\ method' = IF isMemoized(method)
                 THEN wrappedFunctionsByCache[cachesByFunction[method]]
                 ELSE method
    /\ UNCHANGED <<memoOthers, memoCalls, memoCall, invocations, frames>>

\* The i-th call of a wrapper, of Wrapper(c): its arguments, the property
\* 'closed' and the entry of its key in the cache when the call began,
\* whether it invoked the wrapped function, and the value it returned
\* (NoVal: it has not returned yet).  A wrapper whose wrapped function is a
\* wrapper passes the call on: only closed wrappers can be memoized.
MemoCall(i, c, args, closed, stored, invoked, v) ==
    [index |-> i, wrapper |-> c, args |-> args, closed |-> closed,
     stored |-> stored, invoked |-> invoked, returned |-> v]

\* invocations[c][k] counts the calls of Wrapper(c) with the cache key k
\* that began while the wrapper was open and invoked the wrapped function.
Invoked(c, k) ==
    [invocations EXCEPT ![c][k] = invocations[c][k] + 1]

\* A cache that would never answer.
HasNever(c, k) == FALSE

\* cache.has(cacheKey).
Has(c, k) == caches[c][k] # NoVal

\* wrapper: 'if(wrapper.closed) return call(fn, this, ...args);', fn begins.
MemoCallClosed ==
    /\ memoCalls < MaxMemoCalls
    /\ memoCalls' = memoCalls + 1
    /\ \E c \in 1..Len(wrappers) : \E args \in Arguments :
          /\ wrappers[c].closed
          /\ memoCall' = MemoCall(memoCalls', c, args, TRUE,
                                  caches[c][hashFunction(args)], TRUE, NoVal)
    /\ frames' = Append(frames, memoCall')
    /\ RegistryUnchanged
    /\ UNCHANGED <<memoOthers, method, lastCall, invocations>>

\* wrapper: the cache has the key, 'return cache.get(cacheKey);'.
MemoCallCached ==
    /\ memoCalls < MaxMemoCalls
    /\ memoCalls' = memoCalls + 1
    /\ \E c \in 1..Len(wrappers) : \E args \in Arguments :
          LET cacheKey == hashFunction(args)
          IN  /\ ~wrappers[c].closed
              /\ Has(c, cacheKey)
              /\ memoCall' = MemoCall(memoCalls', c, args, FALSE,
                                      caches[c][cacheKey], FALSE,
                                      caches[c][cacheKey])
    /\ RegistryUnchanged
    /\ UNCHANGED <<memoOthers, method, lastCall, invocations, frames>>

\* wrapper: the cache has not the key, fn begins.
MemoCallInvokes ==
    /\ memoCalls < MaxMemoCalls
    /\ memoCalls' = memoCalls + 1
    /\ \E c \in 1..Len(wrappers) : \E args \in Arguments :
          LET cacheKey == hashFunction(args)
          IN  /\ ~wrappers[c].closed
              /\ ~Has(c, cacheKey)
              /\ memoCall' = MemoCall(memoCalls', c, args, FALSE,
                                      caches[c][cacheKey], TRUE, NoVal)
              /\ invocations' = Invoked(c, cacheKey)
    /\ frames' = Append(frames, memoCall')
    /\ RegistryUnchanged
    /\ UNCHANGED <<memoOthers, method, lastCall>>

\* fn has returned: 'return call(fn, this, ...args);' of a closed wrapper,
\* 'cache.set(cacheKey, call(fn, this, ...args)); return
\* cache.get(cacheKey);' of a wrapper that was open when it was called.
MemoWrappedReturns ==
    /\ frames # << >>
    /\ LET frame == frames[Len(frames)]
           c == frame.wrapper
           cacheKey == hashFunction(frame.args)
           rv == ResultOf(frame.index)
       IN  /\ caches' = IF frame.closed THEN caches
                        ELSE [caches EXCEPT ![c][cacheKey] = rv]
           /\ memoCall' = [frame EXCEPT !.returned =
                              IF frame.closed THEN rv ELSE caches'[c][cacheKey]]
    /\ frames' = Front(frames)
    /\ UNCHANGED <<memoOthers, cachesByFunction, wrappedFunctionsByCache,
                   wrapperFunctionsByCache, wrappers, method, lastCall,
                   memoCalls, invocations>>

\* fn has thrown: the call of the wrapper ends with its exception.
MemoWrappedThrows ==
    /\ frames # << >>
    /\ memoCall' = [frames[Len(frames)] EXCEPT !.returned = Thrown]
    /\ frames' = Front(frames)
    /\ RegistryUnchanged
    /\ UNCHANGED <<memoOthers, method, lastCall, memoCalls, invocations>>

\* The calls of memoize, unmemoize, memoizeMethod and unmemoizeMethod.
MemoNext ==
    \/ Memoize
    \/ Unmemoize
    \/ MemoizeMethod
    \/ UnmemoizeMethod

MemoSpec == MemoInit /\ [][MemoNext]_vars

\* The state after 'wrapper = memoize(fn)' for an original function fn.
MemoCallsInit ==
    /\ CloneIdle
    /\ EqualsIdle
    /\ WrapperIdle
    /\ SetsIdle
    /\ PermIdle
    /\ \E fn \in Originals :
          /\ cachesByFunction =
                SetForBoth([f \in MemoFunctions |-> 0], fn, Wrapper(1), 1)
          /\ wrappedFunctionsByCache =
                [c \in 1..MaxWrappers |-> IF c = 1 THEN fn ELSE NoVal]
          /\ wrappers = <<[fn |-> fn, closed |-> FALSE]>>
          /\ method = fn
          /\ lastCall = LastCall("memoize", fn, "returned", Wrapper(1))
    /\ wrapperFunctionsByCache =
          [c \in 1..MaxWrappers |-> IF c = 1 THEN Wrapper(1) ELSE NoVal]
    /\ caches = <<EmptyCache>>
    /\ memoCalls = 0
    /\ memoCall = NoMemoCall
    /\ invocations = [c \in 1..MaxWrappers |-> [k \in CacheKeys |-> 0]]
    /\ frames = << >>

\* The calls of the wrapper, and of unmemoize.
MemoCallsNext ==
    \/ Unmemoize
    \/ MemoCallClosed
    \/ MemoCallCached
    \/ MemoCallInvokes
    \/ MemoWrappedReturns
    \/ MemoWrappedThrows

MemoCallsSpec == MemoCallsInit /\ [][MemoCallsNext]_vars

(***************************************************************************)
(* Properties of the memoization utilities.                                *)
(***************************************************************************)
\* The wrapper Wrapper(c) has been made and is not closed.
IsOpen(c) == c \in 1..Len(wrappers) /\ ~wrappers[c].closed

\* x is the function wrapped by an open wrapper.
MemoizedOriginal(x) == \E c \in 1..Len(wrappers) : IsOpen(c) /\ wrappers[c].fn = x

\* x is an open wrapper.
OpenWrapper(x) == x[1] = "wrapper" /\ IsOpen(x[2])

\* No function has two open wrappers.
OneOpenWrapper ==
    \A c \in 1..Len(wrappers) : \A d \in 1..Len(wrappers) :
        (IsOpen(c) /\ IsOpen(d) /\ wrappers[c].fn = wrappers[d].fn) => (c = d)

\* The step is a call of memoize or memoizeMethod.
MemoizeStep ==
    /\ lastCall' # lastCall
    /\ lastCall'.op \in {"memoize", "memoizeMethod"}

\* memoize throws 'already memoized' exactly when its argument is a memoized
\* original or an open wrapper, and then leaves the registry unchanged.
ThrowsWhenMemoized ==
    MemoizeStep =>
        /\ (lastCall'.outcome = AlreadyMemoized) <=>
              (MemoizedOriginal(lastCall'.arg) \/ OpenWrapper(lastCall'.arg))
        /\ (lastCall'.outcome = AlreadyMemoized) =>
              (RegistryUnchanged /\ method' = method)

\* C25 (as claimed): for every (original, wrapper) pair made by memoize,
\* isMemoized(original) equals isMemoized(wrapper); no original has two open
\* wrappers; a memoize that has thrown 'already memoized' was given a
\* memoized original or an open wrapper.
C25_PairsMemoizedTogether ==
    /\ \A c \in 1..Len(wrappers) :
          isMemoized(wrappers[c].fn) <=> isMemoized(Wrapper(c))
    /\ OneOpenWrapper
    /\ (lastCall.op # "none" /\ lastCall.outcome = AlreadyMemoized) =>
          (MemoizedOriginal(lastCall.arg) \/ OpenWrapper(lastCall.arg))

\* C25 (amended): for every pair made by memoize whose wrapper is open, the
\* original and the wrapper are both memoized, with the cache of the pair; a
\* closed wrapper is memoized only when it is itself the original of an open
\* wrapper; no original has two open wrappers; memoize throws 'already
\* memoized' exactly when its argument is a memoized original or an open
\* wrapper, and then leaves the registry unchanged.
C25_OpenPairsMemoized ==
    /\ [](/\ \A c \in 1..Len(wrappers) :
               IF IsOpen(c)
               THEN /\ cachesByFunction[wrappers[c].fn] = c
                    /\ cachesByFunction[Wrapper(c)] = c
               ELSE isMemoized(Wrapper(c)) => MemoizedOriginal(Wrapper(c))
          /\ OneOpenWrapper)
    /\ [][ThrowsWhenMemoized]_vars

\* C25, witness: a function has been memoized, unmemoized and memoized
\* again, and a further memoize of it has thrown: the function is memoized,
\* its first wrapper is not.
C25_Witness ==
    /\ Len(wrappers) = 2
    /\ wrappers[1].closed
    /\ IsOpen(2)
    /\ wrappers[2].fn = wrappers[1].fn
    /\ isMemoized(wrappers[1].fn)
    /\ ~isMemoized(Wrapper(1))
    /\ lastCall.outcome = AlreadyMemoized
    /\ lastCall.arg = wrappers[1].fn

\* The step is a call of unmemoize or unmemoizeMethod.
UnmemoizeStep ==
    /\ lastCall' # lastCall
    /\ lastCall'.op \in {"unmemoize", "unmemoizeMethod"}

\* The open wrapper that x is, or that wraps x.
PairOf(x) ==
    IF OpenWrapper(x) THEN x[2]
    ELSE CHOOSE c \in 1..Len(wrappers) : IsOpen(c) /\ wrappers[c].fn = x

\* unmemoize of a memoized original or of its wrapper returns the original,
\* removes both from the registry, clears the cache and closes the
\* wrapper; unmemoize of another function throws and changes nothing.
UnmemoizeUndoes ==
    UnmemoizeStep =>
        LET x == lastCall'.arg
        IN  IF MemoizedOriginal(x) \/ OpenWrapper(x)
            THEN /\ lastCall'.outcome = "returned"
                 /\ lastCall'.value = wrappers[PairOf(x)].fn
                 /\ cachesByFunction'[wrappers[PairOf(x)].fn] = 0
                 /\ cachesByFunction'[Wrapper(PairOf(x))] = 0
                 /\ wrappers'[PairOf(x)].closed
                 /\ caches'[PairOf(x)] = EmptyCache
            ELSE /\ lastCall'.outcome = NotMemoized
                 /\ RegistryUnchanged
                 /\ method' = method

\* After unmemoize has returned the original, memoize of it succeeds.
MemoizeAgain ==
    ( /\ lastCall.op # "none"
      /\ lastCall.op \in {"unmemoize", "unmemoizeMethod"}
      /\ lastCall.outcome = "returned"
      /\ MemoizeStep
      /\ lastCall'.arg = lastCall.value ) =>
        (lastCall'.outcome = "returned")

\* memoizeMethod followed by unmemoizeMethod restores object[key].
MethodRestored ==
    ( /\ lastCall.op # "none"
      /\ lastCall.op = "memoizeMethod"
      /\ lastCall.outcome = "returned"
      /\ lastCall'.op = "unmemoizeMethod" ) =>
        /\ method = lastCall.value
        /\ lastCall'.outcome = "returned"
        /\ method' = lastCall.arg

\* C26: unmemoize(x), for x a memoized original or its wrapper, returns the
\* original, removes both from the registry and closes the wrapper; then
\* memoize(original) succeeds again, and memoizeMethod followed by
\* unmemoizeMethod restores object[key]; unmemoize of a function that is
\* not memoized throws and changes nothing.
C26_UnmemoizeRestores ==
    [][UnmemoizeUndoes /\ MemoizeAgain /\ MethodRestored]_vars

\* C26, witness: unmemoizeMethod has put the original function back, and
\* the wrapper that memoizeMethod had made is closed.
C26_Witness ==
    /\ lastCall.op # "none"
    /\ lastCall.op = "unmemoizeMethod"
    /\ lastCall.outcome = "returned"
    /\ lastCall.arg = Wrapper(1)
    /\ method = lastCall.value
    /\ method \in Originals
    /\ wrappers[1].closed
    /\ ~isMemoized(method)
    /\ ~isMemoized(Wrapper(1))

\* C27 (as claimed): while a wrapper is open the wrapped function is invoked
\* at most once per cache key; a call of a closed wrapper invokes the
\* wrapped function; the cleared cache of a closed wrapper is not written.
C27_OncePerKey ==
    /\ \A c \in 1..Len(wrappers) : \A k \in CacheKeys : invocations[c][k] <= 1
    /\ (memoCall.index # 0 /\ memoCall.closed) => memoCall.invoked
    /\ \A c \in 1..Len(wrappers) : wrappers[c].closed => (caches[c] = EmptyCache)

\* What a call of a wrapper does follows from the state in which it began.
AsItBegan(call) ==
    IF ~call.closed /\ call.stored # NoVal
    THEN ~call.invoked /\ call.returned = call.stored
    ELSE call.invoked /\ call.returned \in {NoVal, Thrown, ResultOf(call.index)}

\* A call that began when the wrapper was closed does not write the cache;
\* one that began when the wrapper was open and has invoked the wrapped
\* function stores its result when the function returns.
CacheWritten ==
    (memoCall' # memoCall) =>
        /\ memoCall'.closed => (caches' = caches)
        /\ ( /\ ~memoCall'.closed
             /\ memoCall'.invoked
             /\ memoCall'.returned \notin {NoVal, Thrown} ) =>
              (caches'[memoCall'.wrapper][hashFunction(memoCall'.args)]
                  = memoCall'.returned)

\* C27 (amended): a call of a wrapper that begins while the wrapper is open
\* and the cache holds the key hashFunction(args) returns the stored result
\* without invoking the wrapped function; one that begins while the cache
\* does not hold the key invokes it once, and stores the result when the
\* function returns; a call that begins after unmemoize invokes the wrapped
\* function, returns its result and does not write the cache.
C27_CachedOrInvoked ==
    /\ [](/\ (memoCall.index # 0) => AsItBegan(memoCall)
          /\ \A i \in 1..Len(frames) : AsItBegan(frames[i]))
    /\ [][CacheWritten]_vars

\* C27, witness: the second call of an open wrapper has found the result of
\* the first call in the cache and has returned it.
C27_Witness ==
    /\ memoCall.index # 0
    /\ memoCall.index = 2
    /\ ~memoCall.closed
    /\ ~memoCall.invoked
    /\ memoCall.args = <<Undefined>>
    /\ memoCall.returned = ResultOf(1)
    /\ invocations[1]["[null]"] = 1

\* ======================================================================
\* Part 5.  Sets.equals and Sets.intersection (src/ts/Sets.ts).
\*
\* A Set is modelled as the sequence of its elements in insertion order,
\* without repetition.  The elements are the values 1..NumElements, which
\* stand for values that are pairwise different under SameValueZero.
\* ======================================================================

\* The sequences over 1..NumElements without repetition: the Sets.
RECURSIVE SetsOfLength(_)
SetsOfLength(len) ==
    IF len = 0
    THEN {<< >>}
    ELSE {Append(s, e) : s \in SetsOfLength(len - 1), e \in 1..NumElements}

IsSet(s) == \A i, j \in 1..Len(s) : s[i] = s[j] => i = j

\* The elements of a Set, in no order.
ElementsOf(s) == {s[i] : i \in 1..Len(s)}

\* set.has(key)
SetHas(s, key) == \E i \in 1..Len(s) : s[i] = key

\* set.delete(key): the Set without key, the other elements in their order.
SetDelete(s, key) == SelectSeq(s, LAMBDA e : e # key)

\* The test of the inner loop of intersection(): 'if(!rv.has(key))'.
DeletesKey(rv, key) == ~SetHas(rv, key)

\* The inner loop of intersection(): for(const key of otherSet), from the
\* i-th element of otherSet on.
RECURSIVE ForKeysOf(_, _, _)
ForKeysOf(rv, other, i) ==
    IF i > Len(other)
    THEN rv
    ELSE ForKeysOf(IF DeletesKey(rv, other[i])
                   THEN SetDelete(rv, other[i])
                   ELSE rv,
                   other, i + 1)

\* Sets.intersection(set, ...otherSets): rv = new Set(set), then the outer
\* loop over otherSets from the k-th on.
RECURSIVE ForOtherSets(_, _, _)
ForOtherSets(rv, others, k) ==
    IF k > Len(others)
    THEN rv
    ELSE ForOtherSets(ForKeysOf(rv, others[k], 1), others, k + 1)

intersection(s, others) == ForOtherSets(s, others, 1)

\* A call Sets.equals(set, otherSet) of two Sets.
SetsInit ==
    /\ \E len \in 0..NumElements : set \in {s \in SetsOfLength(len) : IsSet(s)}
    /\ \E len \in 0..NumElements :
           otherSet \in {s \in SetsOfLength(len) : IsSet(s)}
    /\ setsResult = "ready"
    /\ CloneIdle
    /\ EqualsIdle
    /\ WrapperIdle
    /\ MemoIdle
    /\ PermIdle

\* if(set.size !== otherSet.size) return false;
EqualsSizesDiffer ==
    /\ setsResult = "ready"
    /\ Len(set) # Len(otherSet)
    /\ setsResult' = "false"
    /\ UNCHANGED <<set, otherSet, setsOthers>>

\* return Sets.intersection(set, otherSet).size === set.size;
EqualsByIntersection ==
    /\ setsResult = "ready"
    /\ Len(set) = Len(otherSet)
    /\ setsResult' = IF Len(intersection(set, <<otherSet>>)) = Len(set)
                     THEN "true"
                     ELSE "false"
    /\ UNCHANGED <<set, otherSet, setsOthers>>

SetsNext == EqualsSizesDiffer \/ EqualsByIntersection

SetsSpec == SetsInit /\ [][SetsNext]_vars

SetsReturned == setsResult \in {"true", "false"}

\* C29: Sets.equals(a, b) returns true if and only if a and b hold exactly
\* the same elements, Sets of equal size with different elements included;
\* and Sets.intersection(a, b) holds exactly the elements of a that are
\* also in b.
C29_EqualsSameElements ==
    SetsReturned =>
        /\ (setsResult = "true") <=> (ElementsOf(set) = ElementsOf(otherSet))
        /\ ElementsOf(intersection(set, <<otherSet>>))
               = ElementsOf(set) \cap ElementsOf(otherSet)

\* What the code does instead: intersection() returns a copy of its first
\* argument, so equals() compares the sizes only.
EqualsComparesSizes ==
    SetsReturned =>
        /\ (setsResult = "true") <=> (Len(set) = Len(otherSet))
        /\ intersection(set, <<otherSet>>) = set

\* ======================================================================
\* Part 6.  Arrays.generatePermutations (src/unnamed/part_001).
\*
\* arrays[1] is the argument 'list', arrays[2] the array 'perm' and
\* arrays[3] the array yielded last: each 'perm.slice()' is a new array,
\* and the arrays yielded before it are reachable by the consumer only.
\* An activation of generate() is a record of its n, its i and the place
\* where it stands.  Indices are those of the source, from 0.
\* ======================================================================

\* The lists of len pairwise distinct elements out of 1..MaxListLength.
RECURSIVE ListsOfLength(_)
ListsOfLength(len) ==
    IF len = 0
    THEN {<< >>}
    ELSE {Append(l, e) : l \in ListsOfLength(len - 1), e \in 1..MaxListLength}

PairwiseDistinct(l) == \A i, j \in 1..Len(l) : l[i] = l[j] => i = j

\* _slice(list) and perm.slice(): a new array of the same elements.
slice(array) == [i \in 1..Len(array) |-> array[i]]

\* Arrays.swap(list, i1, i2)
swap(array, i1, i2) ==
    [array EXCEPT ![i1 + 1] = array[i2 + 1], ![i2 + 1] = array[i1 + 1]]

\* The index swapped with n - 1 if the parity of n were not looked at.
SwapsFirst(k, i) == 0

\* The index swapped with n - 1 after the i-th recursive call of
\* generate(n): i when n is even, 0 when n is odd.
SwapIndex(k, i) == IF k % 2 = 0 THEN i ELSE 0

Activation(k, i, pc) == [n |-> k, i |-> i, pc |-> pc]

TopActivation == generate[Len(generate)]

Returned == SubSeq(generate, 1, Len(generate) - 1)

\* A generator made by generatePermutations(list), not yet started.
PermInit ==
    /\ \E len \in 0..MaxListLength :
           \E l \in {l \in ListsOfLength(len) : PairwiseDistinct(l)} :
               arrays = <<l>>
    /\ perm = 0
    /\ yielded = 0
    /\ permutations = << >>
    /\ generate = << >>
    /\ permStatus = "ready"
    /\ CloneIdle
    /\ EqualsIdle
    /\ WrapperIdle
    /\ MemoIdle
    /\ SetsIdle

\* The first next(): const perm = _slice(list); yield* generate(list.length)
PermStart ==
    /\ permStatus = "ready"
    /\ arrays' = Append(arrays, slice(arrays[1]))
    /\ perm' = 2
    /\ generate' = <<Activation(Len(arrays[1]), 0, "begin")>>
    /\ permStatus' = "running"
    /\ UNCHANGED <<yielded, permutations, permOthers>>

\* if(!n) yield perm.slice(); after which the activation returns.
GenerateYields ==
    /\ permStatus = "running"
    /\ generate # << >>
    /\ TopActivation.pc = "begin"
    /\ TopActivation.n = 0
    /\ arrays' = <<arrays[1], arrays[2], slice(arrays[perm])>>
    /\ yielded' = 3
    /\ permutations' = Append(permutations, arrays[perm])
    /\ generate' = Returned
    /\ UNCHANGED <<perm, permStatus, permOthers>>

\* for(...; i < n; ...) yield* generate(n - 1);
GenerateCalls ==
    /\ permStatus = "running"
    /\ generate # << >>
    /\ TopActivation.pc \in {"begin", "loop"}
    /\ TopActivation.n # 0
    /\ TopActivation.i < TopActivation.n
    /\ generate' = Append([generate EXCEPT ![Len(generate)].pc = "swap"],
                          Activation(TopActivation.n - 1, 0, "begin"))
    /\ UNCHANGED <<arrays, perm, yielded, permutations, permStatus,
                   permOthers>>

\* if(n % 2 === 0) Arrays.swap(perm, i, n - 1);
\* else Arrays.swap(perm, 0, n - 1);    and then i++
GenerateSwaps ==
    /\ permStatus = "running"
    /\ generate # << >>
    /\ TopActivation.pc = "swap"
    /\ arrays' = [arrays EXCEPT
                     ![perm] = swap(arrays[perm],
                                    SwapIndex(TopActivation.n, TopActivation.i),
                                    TopActivation.n - 1)]
    /\ generate' = [generate EXCEPT ![Len(generate)].pc = "loop",
                                    ![Len(generate)].i = TopActivation.i + 1]
    /\ UNCHANGED <<perm, yielded, permutations, permStatus, permOthers>>

\* for(...; i < n; ...) is over: the activation returns.
GenerateReturns ==
    /\ permStatus = "running"
    /\ generate # << >>
    /\ TopActivation.pc = "loop"
    /\ TopActivation.i >= TopActivation.n
    /\ generate' = Returned
    /\ UNCHANGED <<arrays, perm, yielded, permutations, permStatus,
                   permOthers>>

\* yield* generate(list.length) is over: the generator is done.
PermReturns ==
    /\ permStatus = "running"
    /\ generate = << >>
    /\ permStatus' = "done"
    /\ UNCHANGED <<arrays, perm, yielded, permutations, generate, permOthers>>

\* The consumer writes into the array it was given last, once: 0, which
\* is no element of a list.
ConsumerWrites ==
    /\ yielded # 0
    /\ arrays[yielded] = permutations[Len(permutations)]
    /\ \E j \in 1..Len(arrays[yielded]) :
           arrays' = [arrays EXCEPT ![yielded][j] = 0]
    /\ UNCHANGED <<perm, yielded, permutations, generate, permStatus,
                   permOthers>>

\* The steps of the generator, taken when the consumer calls next().
GeneratorNext ==
    \/ PermStart
    \/ GenerateYields
    \/ GenerateCalls
    \/ GenerateSwaps
    \/ GenerateReturns
    \/ PermReturns

PermNext == GeneratorNext \/ ConsumerWrites

PermSpec == PermInit /\ [][PermNext]_vars

\* The consumer calls next() until the generator is done, as the spread
\* of the example does.
PermFairSpec == PermSpec /\ WF_vars(GeneratorNext)

RECURSIVE Factorial(_)
Factorial(k) == IF k = 0 THEN 1 ELSE k * Factorial(k - 1)

\* The array is a rearrangement of the list of pairwise distinct elements.
Rearrangement(array, l) ==
    /\ Len(array) = Len(l)
    /\ {array[i] : i \in 1..Len(array)} = {l[i] : i \in 1..Len(l)}

\* The arrays yielded so far: pairwise distinct rearrangements of the
\* list, no more than n! of them, each a new array.
YieldedSoFar ==
    /\ PairwiseDistinct(permutations)
    /\ \A k \in 1..Len(permutations) :
           Rearrangement(permutations[k], arrays[1])
    /\ Len(permutations) <= Factorial(Len(arrays[1]))
    /\ yielded # 0 => (yielded # 1 /\ yielded # perm)

\* Once done, n! arrays were yielded; one empty array for the empty list.
YieldedWhenDone ==
    permStatus = "done" =>
        /\ Len(permutations) = Factorial(Len(arrays[1]))
        /\ arrays[1] = << >> => permutations = << << >> >>

ListUnmodified == arrays'[1] = arrays[1]

\* C30: for a list of n pairwise distinct elements the generator comes to
\* its end after yielding exactly n! arrays, pairwise distinct, each a
\* rearrangement of the list and each a new array that the consumer may
\* write into, and the list is never modified; for the empty list exactly
\* one empty array is yielded.
C30_AllPermutations ==
    /\ [](permStatus # "idle" => (YieldedSoFar /\ YieldedWhenDone))
    /\ [][ListUnmodified]_vars
    /\ <>(permStatus = "done")

\* The six permutations of a list of three elements were yielded, and the
\* consumer wrote into the last of them.
C30_Witness ==
    /\ permStatus = "done"
    /\ Len(arrays[1]) = 3
    /\ Len(permutations) = 6
    /\ arrays[yielded] # permutations[6]
====
